---- MODULE Spec2Model ----
(***************************************************************************)
(* Sorted-list containers of rs_list_collections: OrderedSet / ListSet    *)
(* (one ascending Vec), OrderedMap (parallel keys / values Vecs), the     *)
(* entry API, and the merge iterators Difference, SymmetricDifference,    *)
(* Union and Intersection of lib.rs.                                       *)
(*                                                                         *)
(* Vec indices are the 0-based indices of the Rust code; a TLA+ sequence  *)
(* s holds Rust's s[i] at s[i + 1].  Option<T> is a sequence of length    *)
(* at most one: None is << >>, Some(v) is <<v>>.                          *)
(***************************************************************************)
EXTENDS Integers, Sequences, FiniteSets, TLC

\* Items / keys are 1..MaxItem, map keys 1..MaxKey, map values 0..MaxVal
\* (0 is V::default() of the integer value type).
MaxItem == 4
MaxKey == 3
MaxVal == 1
MaxLen == 3

Items == 1..MaxItem
Keys == 1..MaxKey
Vals == 0..MaxVal

None == << >>
Some(v) == <<v>>

VARIABLES
    kind,           \* the container constructed: "OrderedSet", "ListSet", "OrderedMap"
    ordered_list,   \* the set's ordered_list: Vec<T>
    set_hist,       \* history: the last set operation that named each item
    keys,           \* OrderedMap.keys
    values,         \* OrderedMap.values
    entry,          \* the Entry borrowed from the map, None when there is none
    map_hist,       \* history: the last map operation that named each key
    lh_list,        \* ordered_list of the left operand of a set operation
    rh_list,        \* ordered_list of the right operand of a set operation
    iter,           \* the merge iterator built on lh_list / rh_list
    out,            \* the items the merge iterator has yielded so far
    slice,          \* the ordered_list: &[(K, V)] the skip-ahead iterators borrow
    cursor,         \* the index (the iter_mut) of each skip-ahead iterator
    vector,         \* the Vec<T> handed to From, FromIterator and SetIter::new
    call            \* the last call made and what it returned

vars == <<kind, ordered_list, set_hist, keys, values, entry, map_hist,
          lh_list, rh_list, iter, out, slice, cursor, vector, call>>

setVars == <<kind, ordered_list, set_hist>>
mapVars == <<keys, values, entry, map_hist>>
mergeVars == <<lh_list, rh_list, iter, out>>
iterVars == <<slice, cursor, vector>>

----------------------------------------------------------------------------
(* Vec primitives of the standard library, as the containers use them.     *)

\* Vec::insert(index, element): shifts everything from index to the right.
Vec_insert(v, index, element) ==
    SubSeq(v, 1, index) \o <<element>> \o SubSeq(v, index + 1, Len(v))

\* Vec::remove(index): shifts everything after index to the left.
Vec_remove(v, index) ==
    SubSeq(v, 1, index) \o SubSeq(v, index + 2, Len(v))

Ok(index) == [ok |-> TRUE, index |-> index]
Err(index) == [ok |-> FALSE, index |-> index]

\* The halving loop of slice::binary_search: base ends on the last position
\* whose element is not Greater than the item (or on 0).
RECURSIVE binary_search_loop(_, _, _, _)
binary_search_loop(s, item, base, size) ==
    IF size > 1
    THEN LET half == size \div 2
             mid == base + half
         IN  binary_search_loop(s, item,
                                IF s[mid + 1] > item THEN base ELSE mid,
                                size - half)
    ELSE base

\* slice::binary_search(&item): Ok(index of the item) or Err(insertion index).
binary_search(s, item) ==
    IF Len(s) = 0
    THEN Err(0)
    ELSE LET base == binary_search_loop(s, item, 0, Len(s))
         IN  IF s[base + 1] = item
             THEN Ok(base)
             ELSE Err(base + (IF s[base + 1] < item THEN 1 ELSE 0))

----------------------------------------------------------------------------
(* OrderedSet (ordered_set.rs) and ListSet (lib.rs).                       *)

\* OrderedSet::insert with the item placed one position too far right.
OrderedSet_insert_shifted(list, item) ==
    LET r == binary_search(list, item)
    IN  IF ~r.ok
        THEN [list |-> Vec_insert(list, IF r.index < Len(list)
                                        THEN r.index + 1 ELSE r.index, item),
              ret |-> TRUE]
        ELSE [list |-> list, ret |-> FALSE]

\* OrderedSet::insert that inserts the item whether or not it was found.
OrderedSet_insert_always(list, item) ==
    LET r == binary_search(list, item)
    IN  [list |-> Vec_insert(list, r.index, item), ret |-> ~r.ok]

OrderedSet_insert(list, item) ==
    LET r == binary_search(list, item)
    IN  IF ~r.ok
        THEN [list |-> Vec_insert(list, r.index, item), ret |-> TRUE]
        ELSE [list |-> list, ret |-> FALSE]

OrderedSet_remove(list, item) ==
    LET r == binary_search(list, item)
    IN  IF r.ok
        THEN [list |-> Vec_remove(list, r.index), ret |-> TRUE]
        ELSE [list |-> list, ret |-> FALSE]

\* OrderedSet::contains that misses the item stored last.
OrderedSet_contains_short(list, item) ==
    binary_search(SubSeq(list, 1, Len(list) - 1), item).ok

OrderedSet_contains(list, item) == binary_search(list, item).ok

OrderedSet_is_valid(list) ==
    \A i \in 1..(Len(list) - 1) : ~(list[i] >= list[i + 1])

\* From<Vec<T>> for OrderedSet that makes no assertion.
OrderedSet_from_unchecked(list) == [panicked |-> FALSE, ret |-> Some(list)]

\* From<Vec<T>> for OrderedSet: Self { ordered_list }, returned if
\* assert!(list.is_valid()) passes; a failed assertion panics and nothing
\* is returned.
OrderedSet_from(list) ==
    IF OrderedSet_is_valid(list)
    THEN [panicked |-> FALSE, ret |-> Some(list)]
    ELSE [panicked |-> TRUE, ret |-> None]

\* FromIterator<T> for OrderedSet that pushes each item at the end.
RECURSIVE OrderedSet_from_iter_push(_, _)
OrderedSet_from_iter_push(items, ordered_set) ==
    IF items = << >>
    THEN ordered_set
    ELSE OrderedSet_from_iter_push(Tail(items),
                                   Append(ordered_set, Head(items)))

\* FromIterator<T> for OrderedSet: for i in iter { ordered_set.insert(i) },
\* on a set that starts as OrderedSet::default().
RECURSIVE OrderedSet_from_iter(_, _)
OrderedSet_from_iter(items, ordered_set) ==
    IF items = << >>
    THEN ordered_set
    ELSE OrderedSet_from_iter(Tail(items),
                              OrderedSet_insert(ordered_set, Head(items)).list)

\* #[derive(PartialEq)] of OrderedSet: the ordered_list of the two are equal
\* as Vecs, of one length and equal item for item.
OrderedSet_eq(self, other) ==
    /\ Len(self) = Len(other)
    /\ \A i \in 1..Len(self) : self[i] = other[i]

ListSet_insert(list, item) ==
    LET r == binary_search(list, item)
    IN  IF ~r.ok
        THEN [list |-> Vec_insert(list, r.index, item), ret |-> TRUE]
        ELSE [list |-> list, ret |-> FALSE]

ListSet_remove(list, item) ==
    LET r == binary_search(list, item)
    IN  IF r.ok
        THEN [list |-> Vec_remove(list, r.index), ret |-> TRUE]
        ELSE [list |-> list, ret |-> FALSE]

ListSet_contains(list, item) == binary_search(list, item).ok

ListSet_is_valid(list) ==
    \A i \in 1..(Len(list) - 1) : ~(list[i] >= list[i + 1])

\* The call record of a set method: the method, its argument, what it
\* returned, the list it was called on and the item's history before it.
SetCall(op, item, ret) ==
    [op |-> op, item |-> item, ret |-> ret,
     before |-> ordered_list, was |-> set_hist[item]]

NoCall == [op |-> "new"]

CallOrderedSetInsert(item) ==
    /\ kind = "OrderedSet"
    /\ LET r == OrderedSet_insert(ordered_list, item)
       IN  /\ ordered_list' = r.list
           /\ call' = SetCall("insert", item, r.ret)
    /\ set_hist' = [set_hist EXCEPT ![item] = "insert"]
    /\ UNCHANGED <<kind, mapVars, mergeVars, iterVars>>

CallOrderedSetRemove(item) ==
    /\ kind = "OrderedSet"
    /\ LET r == OrderedSet_remove(ordered_list, item)
       IN  /\ ordered_list' = r.list
           /\ call' = SetCall("remove", item, r.ret)
    /\ set_hist' = [set_hist EXCEPT ![item] =
                        IF call'.ret THEN "remove_hit" ELSE "remove_miss"]
    /\ UNCHANGED <<kind, mapVars, mergeVars, iterVars>>

CallOrderedSetContains(item) ==
    /\ kind = "OrderedSet"
    /\ call' = SetCall("contains", item, OrderedSet_contains(ordered_list, item))
    /\ UNCHANGED <<setVars, mapVars, mergeVars, iterVars>>

CallListSetInsert(item) ==
    /\ kind = "ListSet"
    /\ LET r == ListSet_insert(ordered_list, item)
       IN  /\ ordered_list' = r.list
           /\ call' = SetCall("insert", item, r.ret)
    /\ set_hist' = [set_hist EXCEPT ![item] = "insert"]
    /\ UNCHANGED <<kind, mapVars, mergeVars, iterVars>>

CallListSetRemove(item) ==
    /\ kind = "ListSet"
    /\ LET r == ListSet_remove(ordered_list, item)
       IN  /\ ordered_list' = r.list
           /\ call' = SetCall("remove", item, r.ret)
    /\ set_hist' = [set_hist EXCEPT ![item] =
                        IF call'.ret THEN "remove_hit" ELSE "remove_miss"]
    /\ UNCHANGED <<kind, mapVars, mergeVars, iterVars>>

CallListSetContains(item) ==
    /\ kind = "ListSet"
    /\ call' = SetCall("contains", item, ListSet_contains(ordered_list, item))
    /\ UNCHANGED <<setVars, mapVars, mergeVars, iterVars>>

----------------------------------------------------------------------------
(* OrderedMap (ordered_map.rs) and its entry API (map_entry.rs).  A map is *)
(* the record [keys, values]; a method returns the map it leaves and its   *)
(* return value.                                                           *)

Map(ks, vs) == [keys |-> ks, values |-> vs]

OrderedMap_is_valid(m) ==
    /\ \A i \in 1..(Len(m.keys) - 1) : ~(m.keys[i] >= m.keys[i + 1])
    /\ Len(m.keys) = Len(m.values)

OrderedMap_len(m) == Len(m.keys)

OrderedMap_clear(m) == Map(<< >>, << >>)

OrderedMap_contains_key(m, key) == binary_search(m.keys, key).ok

OrderedMap_get(m, key) ==
    LET r == binary_search(m.keys, key)
    IN  IF r.ok THEN Some(m.values[r.index + 1]) ELSE None

\* OrderedMap::insert that keeps the old value of a key already present.
OrderedMap_insert_keep(m, key, value) ==
    LET r == binary_search(m.keys, key)
    IN  IF r.ok
        THEN [map |-> m, ret |-> Some(m.values[r.index + 1])]
        ELSE [map |-> Map(Vec_insert(m.keys, r.index, key),
                          Vec_insert(m.values, r.index, value)),
              ret |-> None]

\* OrderedMap::insert that pushes the new value of a key already present
\* at the end of values.
OrderedMap_insert_push(m, key, value) ==
    LET r == binary_search(m.keys, key)
    IN  IF r.ok
        THEN [map |-> Map(m.keys,
                          Append(Vec_remove(m.values, r.index), value)),
              ret |-> Some(m.values[r.index + 1])]
        ELSE [map |-> Map(Vec_insert(m.keys, r.index, key),
                          Vec_insert(m.values, r.index, value)),
              ret |-> None]

OrderedMap_insert(m, key, value) ==
    LET r == binary_search(m.keys, key)
    IN  IF r.ok
        THEN [map |-> Map(m.keys,
                          Vec_insert(Vec_remove(m.values, r.index), r.index, value)),
              ret |-> Some(m.values[r.index + 1])]
        ELSE [map |-> Map(Vec_insert(m.keys, r.index, key),
                          Vec_insert(m.values, r.index, value)),
              ret |-> None]

\* OrderedMap::remove that drops the first pair when the key is not found.
OrderedMap_remove_absent(m, key) ==
    LET r == binary_search(m.keys, key)
    IN  IF r.ok
        THEN [map |-> Map(Vec_remove(m.keys, r.index), Vec_remove(m.values, r.index)),
              ret |-> Some(m.values[r.index + 1])]
        ELSE [map |-> Map(SubSeq(m.keys, 2, Len(m.keys)),
                          SubSeq(m.values, 2, Len(m.values))),
              ret |-> None]

OrderedMap_remove(m, key) ==
    LET r == binary_search(m.keys, key)
    IN  IF r.ok
        THEN [map |-> Map(Vec_remove(m.keys, r.index), Vec_remove(m.values, r.index)),
              ret |-> Some(m.values[r.index + 1])]
        ELSE [map |-> m, ret |-> None]

\* Entry::Occupied(OccupiedEntry {key, index, map}) / Entry::Vacant(...).
Occupied(key, index) == [kind |-> "Occupied", key |-> key, index |-> index]
Vacant(key, index) == [kind |-> "Vacant", key |-> key, index |-> index]

OrderedMap_entry(m, key) ==
    LET r == binary_search(m.keys, key)
    IN  IF r.ok THEN Occupied(key, r.index) ELSE Vacant(key, r.index)

\* A &mut V into map.values: the index it points at.
ValueRef(index) == [index |-> index]

\* The value the reference ref into the values of map m points at.
Deref(m, ref) == m.values[ref.index + 1]

\* *ref = value
Write(m, ref, value) ==
    Map(m.keys, [m.values EXCEPT ![ref.index + 1] = value])

OrderedMap_get_mut(m, key) ==
    LET r == binary_search(m.keys, key)
    IN  IF r.ok THEN Some(ValueRef(r.index)) ELSE None

\* OccupiedEntry::get_mut: &mut self.map.values[self.index]
OccupiedEntry_get_mut(e, m) == ValueRef(e.index)

OccupiedEntry_into_mut(e, m) == [map |-> m, ret |-> ValueRef(e.index)]

\* VacantEntry::insert that inserts the key only.
VacantEntry_insert_key_only(e, m, value) ==
    [map |-> Map(Vec_insert(m.keys, e.index, e.key), m.values),
     ret |-> ValueRef(e.index)]

\* VacantEntry::insert that pushes the value at the end of values.
VacantEntry_insert_push(e, m, value) ==
    [map |-> Map(Vec_insert(m.keys, e.index, e.key), Append(m.values, value)),
     ret |-> ValueRef(e.index)]

VacantEntry_insert(e, m, value) ==
    [map |-> Map(Vec_insert(m.keys, e.index, e.key),
                 Vec_insert(m.values, e.index, value)),
     ret |-> ValueRef(e.index)]

\* Entry::or_insert that stores default over the value of an occupied entry.
Entry_or_insert_overwrite(e, m, default) ==
    IF e.kind = "Occupied"
    THEN [map |-> Map(m.keys, [m.values EXCEPT ![e.index + 1] = default]),
          ret |-> ValueRef(e.index)]
    ELSE VacantEntry_insert(e, m, default)

Entry_or_insert(e, m, default) ==
    IF e.kind = "Occupied"
    THEN OccupiedEntry_into_mut(e, m)
    ELSE VacantEntry_insert(e, m, default)

\* Entry::or_insert_with that calls default() before the match.
Entry_or_insert_with_eager(e, m, default) ==
    IF e.kind = "Occupied"
    THEN OccupiedEntry_into_mut(e, m) @@ [evals |-> 1]
    ELSE VacantEntry_insert(e, m, default) @@ [evals |-> 1]

\* default is the value the closure returns; it is evaluated (evals = 1)
\* in the Vacant arm only.
Entry_or_insert_with(e, m, default) ==
    IF e.kind = "Occupied"
    THEN OccupiedEntry_into_mut(e, m) @@ [evals |-> 0]
    ELSE VacantEntry_insert(e, m, default) @@ [evals |-> 1]

\* The closures and_modify is given: |e| *e += 1
Modifiers == {"add_one"}

Apply(modify, v) == CASE modify = "add_one" -> v + 1

\* Entry::and_modify that hands modify a copy of the value.
Entry_and_modify_copy(e, m, modify) ==
    IF e.kind = "Occupied"
    THEN [map |-> m, ret |-> e, evals |-> 1]
    ELSE [map |-> m, ret |-> e, evals |-> 0]

\* modify is called (evals = 1) on the reference get_mut gives, for an
\* Occupied entry only; self is returned.
Entry_and_modify(e, m, modify) ==
    IF e.kind = "Occupied"
    THEN LET ref == OccupiedEntry_get_mut(e, m)
         IN  [map |-> Write(m, ref, Apply(modify, Deref(m, ref))),
              ret |-> e, evals |-> 1]
    ELSE [map |-> m, ret |-> e, evals |-> 0]

\* V::default() of the integer value type.
V_default == 0

Entry_or_default(e, m) ==
    IF e.kind = "Occupied"
    THEN OccupiedEntry_into_mut(e, m)
    ELSE VacantEntry_insert(e, m, V_default)

theMap == Map(keys, values)

\* The call record of a map method: the method, its arguments, what it
\* returned, the map it was called on and the key's history before it.
MapCall(op, key, val, ret) ==
    [op |-> op, key |-> key, val |-> val, ret |-> ret,
     before |-> theMap, was |-> map_hist[key]]

Hist(op, val) == [op |-> op, val |-> val]

CallMapInsert(key, value) ==
    /\ kind = "OrderedMap" /\ entry = None
    /\ LET r == OrderedMap_insert(theMap, key, value)
       IN  /\ keys' = r.map.keys
           /\ values' = r.map.values
           /\ call' = MapCall("insert", key, value, r.ret)
    /\ map_hist' = [map_hist EXCEPT ![key] = Hist("insert", value)]
    /\ UNCHANGED <<entry, setVars, mergeVars, iterVars>>

CallMapRemove(key) ==
    /\ kind = "OrderedMap" /\ entry = None
    /\ LET r == OrderedMap_remove(theMap, key)
       IN  /\ keys' = r.map.keys
           /\ values' = r.map.values
           /\ call' = MapCall("remove", key, 0, r.ret)
           /\ map_hist' = [map_hist EXCEPT ![key] =
                  Hist(IF r.ret # None THEN "remove_hit" ELSE "remove_miss", 0)]
    /\ UNCHANGED <<entry, setVars, mergeVars, iterVars>>

CallMapGet(key) ==
    /\ kind = "OrderedMap" /\ entry = None
    /\ call' = MapCall("get", key, 0, OrderedMap_get(theMap, key))
    /\ UNCHANGED <<mapVars, setVars, mergeVars, iterVars>>

CallMapContainsKey(key) ==
    /\ kind = "OrderedMap" /\ entry = None
    /\ call' = MapCall("contains_key", key, 0, OrderedMap_contains_key(theMap, key))
    /\ UNCHANGED <<mapVars, setVars, mergeVars, iterVars>>

\* clear() names no key: every key is back to its state in a new map.
CallMapClear ==
    /\ kind = "OrderedMap" /\ entry = None
    /\ LET m == OrderedMap_clear(theMap)
       IN  /\ keys' = m.keys
           /\ values' = m.values
    /\ call' = [op |-> "clear", before |-> theMap]
    /\ map_hist' = [k \in Keys |-> Hist("none", 0)]
    /\ UNCHANGED <<entry, setVars, mergeVars, iterVars>>

\* map.entry(key): the Entry borrows the map until it is consumed.
CallMapEntry(key) ==
    /\ kind = "OrderedMap" /\ entry = None
    /\ entry' = Some(OrderedMap_entry(theMap, key))
    /\ call' = MapCall("entry", key, 0, entry')
    /\ UNCHANGED <<keys, values, map_hist, setVars, mergeVars, iterVars>>

\* What consuming the entry e by an or_insert* method leaves behind.
EntryConsumed(e, op, val, r) ==
    /\ keys' = r.map.keys
    /\ values' = r.map.values
    /\ entry' = None
    /\ call' = MapCall(op, e.key, val, r.ret)
                @@ [entry |-> e, prev |-> call,
                    evals |-> IF "evals" \in DOMAIN r THEN r.evals ELSE 0]
    /\ map_hist' = IF map_hist[e.key].op # "insert"
                   THEN [map_hist EXCEPT ![e.key] = Hist("insert", val)]
                   ELSE map_hist
    /\ UNCHANGED <<setVars, mergeVars, iterVars>>

CallEntryOrInsert(default) ==
    /\ entry # None
    /\ LET e == entry[1]
       IN  EntryConsumed(e, "or_insert", default, Entry_or_insert(e, theMap, default))

CallEntryOrInsertWith(default) ==
    /\ entry # None
    /\ LET e == entry[1]
       IN  EntryConsumed(e, "or_insert_with", default,
                         Entry_or_insert_with(e, theMap, default))

CallEntryOrDefault ==
    /\ entry # None
    /\ LET e == entry[1]
       IN  EntryConsumed(e, "or_default", V_default, Entry_or_default(e, theMap))

\* map.entry(key).and_modify(modify)...: the entry stays borrowed. The
\* values are kept within Vals.
CallEntryAndModify(modify) ==
    /\ entry # None
    /\ LET e == entry[1]
           r == Entry_and_modify(e, theMap, modify)
       IN  /\ e.kind = "Occupied" =>
                  Apply(modify, Deref(theMap, ValueRef(e.index))) \in Vals
           /\ keys' = r.map.keys
           /\ values' = r.map.values
           /\ entry' = Some(r.ret)
           /\ call' = MapCall("and_modify", e.key, 0, r.ret)
                       @@ [entry |-> e, evals |-> r.evals, modify |-> modify]
           /\ map_hist' =
                  IF map_hist[e.key].op = "insert"
                  THEN [map_hist EXCEPT ![e.key] =
                           Hist("insert", Apply(modify, map_hist[e.key].val))]
                  ELSE map_hist
    /\ UNCHANGED <<setVars, mergeVars, iterVars>>

\* if let Some(v) = map.get_mut(&key) { *v = value }
CallMapGetMut(key, value) ==
    /\ kind = "OrderedMap" /\ entry = None
    /\ LET ref == OrderedMap_get_mut(theMap, key)
           m == IF ref # None THEN Write(theMap, ref[1], value) ELSE theMap
       IN  /\ keys' = m.keys
           /\ values' = m.values
           /\ call' = MapCall("get_mut", key, value, ref)
    /\ map_hist' = IF map_hist[key].op = "insert"
                   THEN [map_hist EXCEPT ![key] = Hist("insert", value)]
                   ELSE map_hist
    /\ UNCHANGED <<entry, setVars, mergeVars, iterVars>>

----------------------------------------------------------------------------
(* The set operations of ListSet (lib.rs): Difference, SymmetricDifference, *)
(* Union and Intersection, each a merge iterator holding one item of       *)
(* lookahead from each operand, and the operators -, ^, | and & that       *)
(* collect them.                                                           *)

\* slice::Iter over list, which has yielded its first pos items: next().
Iter_next(list, pos) ==
    IF pos < Len(list)
    THEN [item |-> Some(list[pos + 1]), iter |-> pos + 1]
    ELSE [item |-> None, iter |-> pos]

\* The struct $iter and the constructor $function of define_set_operation!.
SetOperation_new(name, L, R) ==
    LET l == Iter_next(L, 0)
        r == Iter_next(R, 0)
    IN  [kind |-> name,
         o_lh_cur_item |-> l.item, o_rh_cur_item |-> r.item,
         lh_iter |-> l.iter, rh_iter |-> r.iter,
         comparisons |-> 0, advances |-> 0]

\* self.o_lh_cur_item = self.lh_iter.next()
AdvanceLh(it, L) ==
    LET n == Iter_next(L, it.lh_iter)
    IN  [it EXCEPT !.o_lh_cur_item = n.item, !.lh_iter = n.iter,
                   !.advances = @ + 1]

\* self.o_rh_cur_item = self.rh_iter.next()
AdvanceRh(it, R) ==
    LET n == Iter_next(R, it.rh_iter)
    IN  [it EXCEPT !.o_rh_cur_item = n.item, !.rh_iter = n.iter,
                   !.advances = @ + 1]

Yield(it, item) == [iter |-> it, ret |-> item]

\* match lh_cur_item.cmp(&rh_cur_item): the items are compared once more.
\* The iterators keep no counts; comparisons and advances record the work
\* done by the next() calls made since the iterator was built.
Compared(it) == [it EXCEPT !.comparisons = @ + 1]

\* Difference::next that ends when the right side is exhausted.
RECURSIVE Difference_next_ends(_, _, _)
Difference_next_ends(it, L, R) ==
    IF it.o_lh_cur_item # None
    THEN LET lh_cur_item == it.o_lh_cur_item[1]
         IN  IF it.o_rh_cur_item # None
             THEN LET rh_cur_item == it.o_rh_cur_item[1]
                  IN  IF lh_cur_item < rh_cur_item
                      THEN Yield(AdvanceLh(Compared(it), L), Some(lh_cur_item))
                      ELSE IF lh_cur_item > rh_cur_item
                      THEN Difference_next_ends(AdvanceRh(Compared(it), R), L, R)
                      ELSE Difference_next_ends(
                               AdvanceRh(AdvanceLh(Compared(it), L), R), L, R)
             ELSE Yield(it, None)
    ELSE Yield(it, None)

RECURSIVE Difference_next(_, _, _)
Difference_next(it, L, R) ==
    IF it.o_lh_cur_item # None
    THEN LET lh_cur_item == it.o_lh_cur_item[1]
         IN  IF it.o_rh_cur_item # None
             THEN LET rh_cur_item == it.o_rh_cur_item[1]
                  IN  IF lh_cur_item < rh_cur_item
                      THEN Yield(AdvanceLh(Compared(it), L), Some(lh_cur_item))
                      ELSE IF lh_cur_item > rh_cur_item
                      THEN Difference_next(AdvanceRh(Compared(it), R), L, R)
                      ELSE Difference_next(
                               AdvanceRh(AdvanceLh(Compared(it), L), R), L, R)
             ELSE Yield(AdvanceLh(it, L), Some(lh_cur_item))
    ELSE Yield(it, None)

\* SymmetricDifference::next that yields an item held by both sides.
RECURSIVE SymmetricDifference_next_equal(_, _, _)
SymmetricDifference_next_equal(it, L, R) ==
    IF it.o_lh_cur_item # None
    THEN LET lh_cur_item == it.o_lh_cur_item[1]
         IN  IF it.o_rh_cur_item # None
             THEN LET rh_cur_item == it.o_rh_cur_item[1]
                  IN  IF lh_cur_item < rh_cur_item
                      THEN Yield(AdvanceLh(Compared(it), L), Some(lh_cur_item))
                      ELSE IF lh_cur_item > rh_cur_item
                      THEN Yield(AdvanceRh(Compared(it), R), Some(rh_cur_item))
                      ELSE Yield(AdvanceRh(AdvanceLh(Compared(it), L), R),
                                 Some(lh_cur_item))
             ELSE Yield(AdvanceLh(it, L), Some(lh_cur_item))
    ELSE IF it.o_rh_cur_item # None
    THEN Yield(AdvanceRh(it, R), Some(it.o_rh_cur_item[1]))
    ELSE Yield(it, None)

RECURSIVE SymmetricDifference_next(_, _, _)
SymmetricDifference_next(it, L, R) ==
    IF it.o_lh_cur_item # None
    THEN LET lh_cur_item == it.o_lh_cur_item[1]
         IN  IF it.o_rh_cur_item # None
             THEN LET rh_cur_item == it.o_rh_cur_item[1]
                  IN  IF lh_cur_item < rh_cur_item
                      THEN Yield(AdvanceLh(Compared(it), L), Some(lh_cur_item))
                      ELSE IF lh_cur_item > rh_cur_item
                      THEN Yield(AdvanceRh(Compared(it), R), Some(rh_cur_item))
                      ELSE SymmetricDifference_next(
                               AdvanceRh(AdvanceLh(Compared(it), L), R), L, R)
             ELSE Yield(AdvanceLh(it, L), Some(lh_cur_item))
    ELSE IF it.o_rh_cur_item # None
    THEN Yield(AdvanceRh(it, R), Some(it.o_rh_cur_item[1]))
    ELSE Yield(it, None)

\* Union::next that, on equal items, advances the left side only.
Union_next_left_only(it, L, R) ==
    IF it.o_lh_cur_item # None
    THEN LET lh_cur_item == it.o_lh_cur_item[1]
         IN  IF it.o_rh_cur_item # None
             THEN LET rh_cur_item == it.o_rh_cur_item[1]
                  IN  IF lh_cur_item < rh_cur_item
                      THEN Yield(AdvanceLh(Compared(it), L), Some(lh_cur_item))
                      ELSE IF lh_cur_item > rh_cur_item
                      THEN Yield(AdvanceRh(Compared(it), R), Some(rh_cur_item))
                      ELSE Yield(AdvanceLh(Compared(it), L), Some(lh_cur_item))
             ELSE Yield(AdvanceLh(it, L), Some(lh_cur_item))
    ELSE IF it.o_rh_cur_item # None
    THEN Yield(AdvanceRh(it, R), Some(it.o_rh_cur_item[1]))
    ELSE Yield(it, None)

\* Union::next that compares the items a second time when the left is smaller.
Union_next_twice(it, L, R) ==
    IF it.o_lh_cur_item # None
    THEN LET lh_cur_item == it.o_lh_cur_item[1]
         IN  IF it.o_rh_cur_item # None
             THEN LET rh_cur_item == it.o_rh_cur_item[1]
                  IN  IF lh_cur_item < rh_cur_item
                      THEN Yield(AdvanceLh(Compared(Compared(it)), L),
                                 Some(lh_cur_item))
                      ELSE IF lh_cur_item > rh_cur_item
                      THEN Yield(AdvanceRh(Compared(it), R), Some(rh_cur_item))
                      ELSE Yield(AdvanceRh(AdvanceLh(Compared(it), L), R),
                                 Some(lh_cur_item))
             ELSE Yield(AdvanceLh(it, L), Some(lh_cur_item))
    ELSE IF it.o_rh_cur_item # None
    THEN Yield(AdvanceRh(it, R), Some(it.o_rh_cur_item[1]))
    ELSE Yield(it, None)

\* Union::next that advances both sides when the left item is the smaller.
Union_next_both(it, L, R) ==
    IF it.o_lh_cur_item # None
    THEN LET lh_cur_item == it.o_lh_cur_item[1]
         IN  IF it.o_rh_cur_item # None
             THEN LET rh_cur_item == it.o_rh_cur_item[1]
                  IN  IF lh_cur_item < rh_cur_item
                      THEN Yield(AdvanceRh(AdvanceLh(Compared(it), L), R),
                                 Some(lh_cur_item))
                      ELSE IF lh_cur_item > rh_cur_item
                      THEN Yield(AdvanceRh(Compared(it), R), Some(rh_cur_item))
                      ELSE Yield(AdvanceRh(AdvanceLh(Compared(it), L), R),
                                 Some(lh_cur_item))
             ELSE Yield(AdvanceLh(it, L), Some(lh_cur_item))
    ELSE IF it.o_rh_cur_item # None
    THEN Yield(AdvanceRh(it, R), Some(it.o_rh_cur_item[1]))
    ELSE Yield(it, None)

Union_next(it, L, R) ==
    IF it.o_lh_cur_item # None
    THEN LET lh_cur_item == it.o_lh_cur_item[1]
         IN  IF it.o_rh_cur_item # None
             THEN LET rh_cur_item == it.o_rh_cur_item[1]
                  IN  IF lh_cur_item < rh_cur_item
                      THEN Yield(AdvanceLh(Compared(it), L), Some(lh_cur_item))
                      ELSE IF lh_cur_item > rh_cur_item
                      THEN Yield(AdvanceRh(Compared(it), R), Some(rh_cur_item))
                      ELSE Yield(AdvanceRh(AdvanceLh(Compared(it), L), R),
                                 Some(lh_cur_item))
             ELSE Yield(AdvanceLh(it, L), Some(lh_cur_item))
    ELSE IF it.o_rh_cur_item # None
    THEN Yield(AdvanceRh(it, R), Some(it.o_rh_cur_item[1]))
    ELSE Yield(it, None)

\* Intersection::next that yields the smaller of two unequal items.
RECURSIVE Intersection_next_less(_, _, _)
Intersection_next_less(it, L, R) ==
    IF it.o_lh_cur_item # None
    THEN LET lh_cur_item == it.o_lh_cur_item[1]
         IN  IF it.o_rh_cur_item # None
             THEN LET rh_cur_item == it.o_rh_cur_item[1]
                  IN  IF lh_cur_item < rh_cur_item
                      THEN Yield(AdvanceLh(Compared(it), L), Some(lh_cur_item))
                      ELSE IF lh_cur_item > rh_cur_item
                      THEN Intersection_next_less(AdvanceRh(Compared(it), R), L, R)
                      ELSE Yield(AdvanceRh(AdvanceLh(Compared(it), L), R),
                                 Some(lh_cur_item))
             ELSE Yield(it, None)
    ELSE Yield(it, None)

RECURSIVE Intersection_next(_, _, _)
Intersection_next(it, L, R) ==
    IF it.o_lh_cur_item # None
    THEN LET lh_cur_item == it.o_lh_cur_item[1]
         IN  IF it.o_rh_cur_item # None
             THEN LET rh_cur_item == it.o_rh_cur_item[1]
                  IN  IF lh_cur_item < rh_cur_item
                      THEN Intersection_next(AdvanceLh(Compared(it), L), L, R)
                      ELSE IF lh_cur_item > rh_cur_item
                      THEN Intersection_next(AdvanceRh(Compared(it), R), L, R)
                      ELSE Yield(AdvanceRh(AdvanceLh(Compared(it), L), R),
                                 Some(lh_cur_item))
             ELSE Yield(it, None)
    ELSE Yield(it, None)

\* Iterator::next of the iterator it, by its type.
SetOperation_next(it, L, R) ==
    CASE it.kind = "Difference" -> Difference_next(it, L, R)
      [] it.kind = "SymmetricDifference" -> SymmetricDifference_next(it, L, R)
      [] it.kind = "Union" -> Union_next(it, L, R)
      [] it.kind = "Intersection" -> Intersection_next(it, L, R)

\* FromIterator<&T> for ListSet: insert every item the iterator yields,
\* until its first None, into a set that starts empty.
RECURSIVE ListSet_from_iter(_, _, _, _)
ListSet_from_iter(it, L, R, list_set) ==
    LET n == SetOperation_next(it, L, R)
    IN  IF n.ret = None
        THEN list_set
        ELSE ListSet_from_iter(n.iter, L, R,
                               ListSet_insert(list_set, n.ret[1]).list)

\* $op_fn of define_set_operation!: self.$function(&other).collect()
ListSet_op(name, L, R) ==
    ListSet_from_iter(SetOperation_new(name, L, R), L, R, << >>)

\* ToList::to_list: self.cloned().collect(), the Vec of the items the
\* iterator yields, in the order it yields them, until its first None.
RECURSIVE ToList_to_list(_, _, _, _)
ToList_to_list(it, L, R, vec) ==
    LET n == SetOperation_next(it, L, R)
    IN  IF n.ret = None
        THEN vec
        ELSE ToList_to_list(n.iter, L, R, Append(vec, n.ret[1]))

\* The items of lh.$function(&rh) in the order the iterator yields them.
Stream(name, L, R) ==
    ToList_to_list(SetOperation_new(name, L, R), L, R, << >>)

\* The merge iterators of OrderedSet (crate::iterators): one item of
\* lookahead from each side.
MergeJoin_new(name, L, R) ==
    [kind |-> name,
     o_lh_cur_item |-> Iter_next(L, 0).item,
     o_rh_cur_item |-> Iter_next(R, 0).item,
     lh_iter |-> Iter_next(L, 0).iter,
     rh_iter |-> Iter_next(R, 0).iter,
     comparisons |-> 0, advances |-> 0]

\* One advance of a merge iterator of OrderedSet: what each operation does
\* on left < right, left > right, left == right and on an exhausted side.
RECURSIVE MergeJoin_next(_, _, _)
MergeJoin_next(it, L, R) ==
    LET left == it.o_lh_cur_item
        right == it.o_rh_cur_item
        emit_left == Yield(AdvanceLh(it, L), left)
        emit_right == Yield(AdvanceRh(it, R), right)
        emit_once == Yield(AdvanceRh(AdvanceLh(it, L), R), left)
        end == Yield(it, None)
    IN  IF left # None /\ right # None
        THEN IF left[1] < right[1]
             THEN IF it.kind = "Intersection"
                  THEN MergeJoin_next(AdvanceLh(it, L), L, R)
                  ELSE emit_left
             ELSE IF left[1] > right[1]
             THEN IF it.kind \in {"Union", "SymmetricDifference"}
                  THEN emit_right
                  ELSE MergeJoin_next(AdvanceRh(it, R), L, R)
             ELSE IF it.kind \in {"Union", "Intersection"}
                  THEN emit_once
                  ELSE MergeJoin_next(AdvanceRh(AdvanceLh(it, L), R), L, R)
        ELSE IF right # None
        THEN IF it.kind \in {"Union", "SymmetricDifference"}
             THEN emit_right
             ELSE end
        ELSE IF left # None
        THEN IF it.kind = "Intersection" THEN end ELSE emit_left
        ELSE end

\* ToSet::to_set: OrderedSet { ordered_list: self.to_list() }, the items as
\* the iterator yielded them.
ToSet_to_set(list) == list

\* $op_fn of define_set_operation! of OrderedSet:
\* self.$function(&other).to_set()
RECURSIVE OrderedSet_to_list(_, _, _, _)
OrderedSet_to_list(it, L, R, vec) ==
    LET n == MergeJoin_next(it, L, R)
    IN  IF n.ret = None
        THEN vec
        ELSE OrderedSet_to_list(n.iter, L, R, Append(vec, n.ret[1]))

OrderedSet_op(name, L, R) ==
    ToSet_to_set(OrderedSet_to_list(MergeJoin_new(name, L, R), L, R, << >>))

\* The four let mut lines that open ListSet::is_disjoint and
\* ListSet::is_subset: an iterator over each list and its first item.
ListSet_walk(self, other) ==
    [o_self_cur_item |-> Iter_next(self, 0).item,
     o_other_cur_item |-> Iter_next(other, 0).item,
     self_iter |-> Iter_next(self, 0).iter,
     other_iter |-> Iter_next(other, 0).iter,
     iterations |-> 0]

\* o_self_cur_item = self_iter.next()
AdvanceSelf(w, self) ==
    LET n == Iter_next(self, w.self_iter)
    IN  [w EXCEPT !.o_self_cur_item = n.item, !.self_iter = n.iter]

\* o_other_cur_item = other_iter.next()
AdvanceOther(w, other) ==
    LET n == Iter_next(other, w.other_iter)
    IN  [w EXCEPT !.o_other_cur_item = n.item, !.other_iter = n.iter]

\* The body of the while let loop is entered once more. The code keeps no
\* count; iterations records the passes the loop has made.
Entered(w) == [w EXCEPT !.iterations = @ + 1]

\* return ret, with the local variables as they are at the return.
Return(ret, w) == [ret |-> ret, at |-> w]

\* The loop of ListSet::is_disjoint that returns true on a greater item.
RECURSIVE ListSet_is_disjoint_greater(_, _, _)
ListSet_is_disjoint_greater(w, self, other) ==
    IF w.o_self_cur_item # None
    THEN IF w.o_other_cur_item # None
         THEN IF w.o_self_cur_item[1] < w.o_other_cur_item[1]
              THEN ListSet_is_disjoint_greater(
                       AdvanceSelf(Entered(w), self), self, other)
              ELSE IF w.o_self_cur_item[1] > w.o_other_cur_item[1]
              THEN Return(TRUE, Entered(w))
              ELSE Return(FALSE, Entered(w))
         ELSE Return(TRUE, Entered(w))
    ELSE Return(TRUE, w)

\* The while let loop of ListSet::is_disjoint.
RECURSIVE ListSet_is_disjoint_loop(_, _, _)
ListSet_is_disjoint_loop(w, self, other) ==
    IF w.o_self_cur_item # None
    THEN IF w.o_other_cur_item # None
         THEN IF w.o_self_cur_item[1] < w.o_other_cur_item[1]
              THEN ListSet_is_disjoint_loop(
                       AdvanceSelf(Entered(w), self), self, other)
              ELSE IF w.o_self_cur_item[1] > w.o_other_cur_item[1]
              THEN ListSet_is_disjoint_loop(
                       AdvanceOther(Entered(w), other), self, other)
              ELSE Return(FALSE, Entered(w))
         ELSE Return(TRUE, Entered(w))
    ELSE Return(TRUE, w)

ListSet_is_disjoint(self, other) ==
    ListSet_is_disjoint_loop(ListSet_walk(self, other), self, other)

\* The while let loop of ListSet::is_subset.
RECURSIVE ListSet_is_subset_loop(_, _, _)
ListSet_is_subset_loop(w, self, other) ==
    IF w.o_self_cur_item # None
    THEN IF w.o_other_cur_item # None
         THEN IF w.o_self_cur_item[1] < w.o_other_cur_item[1]
              THEN ListSet_is_subset_loop(
                       AdvanceSelf(Entered(w), self), self, other)
              ELSE IF w.o_self_cur_item[1] > w.o_other_cur_item[1]
              THEN Return(FALSE, Entered(w))
              ELSE ListSet_is_subset_loop(
                       AdvanceOther(AdvanceSelf(Entered(w), self), other),
                       self, other)
         ELSE Return(FALSE, Entered(w))
    ELSE Return(TRUE, w)

ListSet_is_subset(self, other) ==
    ListSet_is_subset_loop(ListSet_walk(self, other), self, other)

OpCall(op, ret) ==
    [op |-> op, ret |-> ret, before |-> iter]

\* The operands are built by ListSet::insert while no iterator borrows them.
CallLhInsert(item) ==
    /\ iter = None
    /\ lh_list' = ListSet_insert(lh_list, item).list
    /\ call' = OpCall("lh.insert", ListSet_insert(lh_list, item).ret)
    /\ UNCHANGED <<rh_list, iter, out, setVars, mapVars, iterVars>>

CallRhInsert(item) ==
    /\ iter = None
    /\ rh_list' = ListSet_insert(rh_list, item).list
    /\ call' = OpCall("rh.insert", ListSet_insert(rh_list, item).ret)
    /\ UNCHANGED <<lh_list, iter, out, setVars, mapVars, iterVars>>

\* lh.difference(&rh), lh.symmetric_difference(&rh), lh.union(&rh),
\* lh.intersection(&rh)
CallSetOperation(name) ==
    /\ iter = None
    /\ iter' = Some(SetOperation_new(name, lh_list, rh_list))
    /\ out' = << >>
    /\ call' = OpCall(name, iter')
    /\ UNCHANGED <<lh_list, rh_list, setVars, mapVars, iterVars>>

\* One call of next() on the iterator; out collects what it yields.
CallNext(name, n) ==
    /\ iter # None
    /\ iter[1].kind = name
    /\ iter' = Some(n.iter)
    /\ out' = IF n.ret = None THEN out ELSE Append(out, n.ret[1])
    /\ call' = OpCall("next", n.ret)
    /\ UNCHANGED <<lh_list, rh_list, setVars, mapVars, iterVars>>

CallDifferenceNext ==
    /\ iter # None
    /\ CallNext("Difference", Difference_next(iter[1], lh_list, rh_list))

CallSymmetricDifferenceNext ==
    /\ iter # None
    /\ CallNext("SymmetricDifference",
                SymmetricDifference_next(iter[1], lh_list, rh_list))

CallUnionNext ==
    /\ iter # None
    /\ CallNext("Union", Union_next(iter[1], lh_list, rh_list))

CallIntersectionNext ==
    /\ iter # None
    /\ CallNext("Intersection", Intersection_next(iter[1], lh_list, rh_list))

\* lh - rh, lh ^ rh, lh | rh, lh & rh
CallOperator(op, name) ==
    /\ iter = None
    /\ call' = OpCall(op, ListSet_op(name, lh_list, rh_list))
    /\ UNCHANGED <<mergeVars, setVars, mapVars, iterVars>>

\* lh - rh, lh ^ rh, lh | rh, lh & rh on two OrderedSets holding the
\* ordered lists lh_list and rh_list.
CallOrderedSetOperator(op, name) ==
    /\ iter = None
    /\ call' = OpCall(op, OrderedSet_op(name, lh_list, rh_list))
    /\ UNCHANGED <<mergeVars, setVars, mapVars, iterVars>>

\* lh.is_disjoint(&rh)
CallIsDisjoint ==
    /\ iter = None
    /\ call' = OpCall("is_disjoint", ListSet_is_disjoint(lh_list, rh_list).ret)
                    @@ [at |-> ListSet_is_disjoint(lh_list, rh_list).at]
    /\ UNCHANGED <<mergeVars, setVars, mapVars, iterVars>>

\* lh.is_subset(&rh)
CallIsSubset ==
    /\ iter = None
    /\ call' = OpCall("is_subset", ListSet_is_subset(lh_list, rh_list).ret)
                    @@ [at |-> ListSet_is_subset(lh_list, rh_list).at]
    /\ UNCHANGED <<mergeVars, setVars, mapVars, iterVars>>

SetOperations == {"Difference", "SymmetricDifference", "Union", "Intersection"}

\* The four iterators over lh and rh, and over rh and lh, each run from new
\* to its first None.
CallToList ==
    /\ iter = None
    /\ call' = [op |-> "to_list",
                ret |-> [name \in SetOperations |->
                            Stream(name, lh_list, rh_list)],
                rev |-> [name \in SetOperations |->
                            Stream(name, rh_list, lh_list)],
                before |-> iter]
    /\ UNCHANGED <<mergeVars, setVars, mapVars, iterVars>>

----------------------------------------------------------------------------
(* The skip-ahead iterators of ordered_iterators.rs, all over one borrowed  *)
(* slice of (key, value) tuples in ascending key order; SetIter runs over   *)
(* its keys.                                                               *)

\* after_index!(seq, target): the smallest index i with seq[i] > target, or
\* seq.len(), by binary search for the boundary between the items <= target
\* and the items > target.
RECURSIVE after_index_search(_, _, _, _)
after_index_search(seq, target, lo, hi) ==
    IF lo < hi
    THEN LET mid == (lo + hi) \div 2
         IN  IF seq[mid + 1] <= target
             THEN after_index_search(seq, target, mid + 1, hi)
             ELSE after_index_search(seq, target, lo, mid)
    ELSE lo

\* after_index! taking the first element not below the target.
after_index_inclusive(seq, target) ==
    after_index_search(seq, target - 1, 0, Len(seq))

after_index(seq, target) == after_index_search(seq, target, 0, Len(seq))

\* from_index!(seq, target): the smallest index i with seq[i] >= target, or
\* seq.len(), by binary search.
RECURSIVE from_index_search(_, _, _, _)
from_index_search(seq, target, lo, hi) ==
    IF lo < hi
    THEN LET mid == (lo + hi) \div 2
         IN  IF seq[mid + 1] < target
             THEN from_index_search(seq, target, mid + 1, hi)
             ELSE from_index_search(seq, target, lo, mid)
    ELSE lo

from_index(seq, target) == from_index_search(seq, target, 0, Len(seq))

\* The key projection of a list of (key, value) tuples.
KeysOf(seq) == [i \in 1..Len(seq) |-> seq[i][1]]

\* tuple_after_index!, tuple_from_index!: the same searches, keyed by .0
tuple_after_index(seq, k) == after_index(KeysOf(seq), k)

tuple_from_index(seq, k) == from_index(KeysOf(seq), k)

\* &list[start..]
SliceFrom(list, start) == SubSeq(list, start + 1, Len(list))

\* list.get(i)
Slice_get(list, i) == IF i < Len(list) THEN Some(list[i + 1]) ELSE None

\* SetIter

SetIter_next(list, idx) ==
    LET item == Slice_get(list, idx)
    IN  IF item # None THEN Yield(idx + 1, Some(item[1])) ELSE Yield(idx, None)

\* SetIter::next_after that searches the whole list, not the rest of it.
SetIter_next_after_whole(list, idx, t) ==
    LET i == after_index(list, t)
        item == Slice_get(list, i)
    IN  IF item # None THEN Yield(i + 1, Some(item[1])) ELSE Yield(i, None)

SetIter_next_after(list, idx, t) ==
    LET i == idx + after_index(SliceFrom(list, idx), t)
        item == Slice_get(list, i)
    IN  IF item # None THEN Yield(i + 1, Some(item[1])) ELSE Yield(i, None)

\* SetIter::next_from that skips with after_index!.
SetIter_next_from_after(list, idx, t) ==
    LET i == idx + after_index(SliceFrom(list, idx), t)
        item == Slice_get(list, i)
    IN  IF item # None THEN Yield(i + 1, Some(item[1])) ELSE Yield(i, None)

SetIter_next_from(list, idx, t) ==
    LET i == idx + from_index(SliceFrom(list, idx), t)
        item == Slice_get(list, i)
    IN  IF item # None THEN Yield(i + 1, Some(item[1])) ELSE Yield(i, None)

\* MapIter: the items are (&item.0, &item.1)

MapIter_next(list, idx) ==
    LET item == Slice_get(list, idx)
    IN  IF item # None
        THEN Yield(idx + 1, Some(<<item[1][1], item[1][2]>>))
        ELSE Yield(idx, None)

MapIter_next_after(list, idx, k) ==
    LET i == idx + tuple_after_index(SliceFrom(list, idx), k)
        item == Slice_get(list, i)
    IN  IF item # None
        THEN Yield(i + 1, Some(<<item[1][1], item[1][2]>>))
        ELSE Yield(i, None)

MapIter_next_from(list, idx, k) ==
    LET i == idx + tuple_from_index(SliceFrom(list, idx), k)
        item == Slice_get(list, i)
    IN  IF item # None
        THEN Yield(i + 1, Some(<<item[1][1], item[1][2]>>))
        ELSE Yield(i, None)

\* KeyIter: the items are &item.0

KeyIter_next(list, idx) ==
    LET item == Slice_get(list, idx)
    IN  IF item # None THEN Yield(idx + 1, Some(item[1][1])) ELSE Yield(idx, None)

KeyIter_next_after(list, idx, k) ==
    LET i == idx + tuple_after_index(SliceFrom(list, idx), k)
        item == Slice_get(list, i)
    IN  IF item # None THEN Yield(i + 1, Some(item[1][1])) ELSE Yield(i, None)

KeyIter_next_from(list, idx, t) ==
    LET i == idx + tuple_from_index(SliceFrom(list, idx), t)
        item == Slice_get(list, i)
    IN  IF item # None THEN Yield(i + 1, Some(item[1][1])) ELSE Yield(i, None)

\* ValueIter: the items are &item.1

ValueIter_next(list, idx) ==
    LET item == Slice_get(list, idx)
    IN  IF item # None THEN Yield(idx + 1, Some(item[1][2])) ELSE Yield(idx, None)

ValueIter_next_after(list, idx, k) ==
    LET i == idx + tuple_after_index(SliceFrom(list, idx), k)
        item == Slice_get(list, i)
    IN  IF item # None THEN Yield(i + 1, Some(item[1][2])) ELSE Yield(i, None)

ValueIter_next_from(list, idx, t) ==
    LET i == idx + tuple_from_index(SliceFrom(list, idx), t)
        item == Slice_get(list, i)
    IN  IF item # None THEN Yield(i + 1, Some(item[1][2])) ELSE Yield(i, None)

\* MapIterMut: iter_mut is a slice::IterMut, here the number of tuples it
\* has passed.

MapIterMut_next(list, iter_mut) ==
    LET n == Iter_next(list, iter_mut)
    IN  IF n.item # None
        THEN Yield(n.iter, Some(<<n.item[1][1], n.item[1][2]>>))
        ELSE Yield(n.iter, None)

RECURSIVE MapIterMut_next_after(_, _, _)
MapIterMut_next_after(list, iter_mut, k) ==
    LET n == Iter_next(list, iter_mut)
    IN  IF n.item # None
        THEN IF n.item[1][1] > k
             THEN Yield(n.iter, Some(<<n.item[1][1], n.item[1][2]>>))
             ELSE MapIterMut_next_after(list, n.iter, k)
        ELSE Yield(n.iter, None)

RECURSIVE MapIterMut_next_from(_, _, _)
MapIterMut_next_from(list, iter_mut, k) ==
    LET n == Iter_next(list, iter_mut)
    IN  IF n.item # None
        THEN IF n.item[1][1] >= k
             THEN Yield(n.iter, Some(<<n.item[1][1], n.item[1][2]>>))
             ELSE MapIterMut_next_from(list, n.iter, k)
        ELSE Yield(n.iter, None)

\* ValueIterMut

ValueIterMut_next(list, iter_mut) ==
    LET n == Iter_next(list, iter_mut)
    IN  IF n.item # None
        THEN Yield(n.iter, Some(n.item[1][2]))
        ELSE Yield(n.iter, None)

\* ValueIterMut::next_after that compares with >=.
RECURSIVE ValueIterMut_next_after_from(_, _, _)
ValueIterMut_next_after_from(list, iter_mut, k) ==
    LET n == Iter_next(list, iter_mut)
    IN  IF n.item # None
        THEN IF n.item[1][1] >= k
             THEN Yield(n.iter, Some(n.item[1][2]))
             ELSE ValueIterMut_next_after_from(list, n.iter, k)
        ELSE Yield(n.iter, None)

RECURSIVE ValueIterMut_next_after(_, _, _)
ValueIterMut_next_after(list, iter_mut, k) ==
    LET n == Iter_next(list, iter_mut)
    IN  IF n.item # None
        THEN IF n.item[1][1] > k
             THEN Yield(n.iter, Some(n.item[1][2]))
             ELSE ValueIterMut_next_after(list, n.iter, k)
        ELSE Yield(n.iter, None)

RECURSIVE ValueIterMut_next_from(_, _, _)
ValueIterMut_next_from(list, iter_mut, k) ==
    LET n == Iter_next(list, iter_mut)
    IN  IF n.item # None
        THEN IF n.item[1][1] >= k
             THEN Yield(n.iter, Some(n.item[1][2]))
             ELSE ValueIterMut_next_from(list, n.iter, k)
        ELSE Yield(n.iter, None)

\* ScopedIterator::from of SetIter: a new SetIter on the part of
\* self.ordered_list from the first element >= t on; self.index is not read.
SetIter_from(list, idx, t) ==
    LET start == from_index(list, t)
    IN  [ordered_list |-> SliceFrom(list, start), index |-> 0]

\* ScopedIterator::from of KeyIter.
KeyIter_from(list, idx, k) ==
    LET start == tuple_from_index(list, k)
    IN  [ordered_list |-> SliceFrom(list, start), index |-> 0]

\* ToList::to_list of a SetIter: self.cloned().collect().
RECURSIVE SetIter_to_list(_, _, _)
SetIter_to_list(list, idx, vec) ==
    LET n == SetIter_next(list, idx)
    IN  IF n.ret = None THEN vec
        ELSE SetIter_to_list(list, n.iter, Append(vec, n.ret[1]))

\* ToList::to_list of a KeyIter.
RECURSIVE KeyIter_to_list(_, _, _)
KeyIter_to_list(list, idx, vec) ==
    LET n == KeyIter_next(list, idx)
    IN  IF n.ret = None THEN vec
        ELSE KeyIter_to_list(list, n.iter, Append(vec, n.ret[1]))

\* The loop of output_is_ordered_nodups that lets equal items pass.
RECURSIVE output_is_ordered_nodups_loop_gt(_, _, _)
output_is_ordered_nodups_loop_gt(list, idx, o_previous) ==
    IF o_previous # None
    THEN LET n == SetIter_next(list, idx)
         IN  IF n.ret # None
             THEN IF o_previous[1] > n.ret[1]
                  THEN Yield(n.iter, FALSE)
                  ELSE output_is_ordered_nodups_loop_gt(list, n.iter, n.ret)
             ELSE output_is_ordered_nodups_loop_gt(list, n.iter, None)
    ELSE Yield(idx, TRUE)

\* The while let loop of output_is_ordered_nodups, on a SetIter.
RECURSIVE output_is_ordered_nodups_loop(_, _, _)
output_is_ordered_nodups_loop(list, idx, o_previous) ==
    IF o_previous # None
    THEN LET n == SetIter_next(list, idx)
         IN  IF n.ret # None
             THEN IF o_previous[1] >= n.ret[1]
                  THEN Yield(n.iter, FALSE)
                  ELSE output_is_ordered_nodups_loop(list, n.iter, n.ret)
             ELSE output_is_ordered_nodups_loop(list, n.iter, None)
    ELSE Yield(idx, TRUE)

\* output_is_ordered_nodups(&mut iter) on a SetIter: what it returns and the
\* iterator as it leaves it.
output_is_ordered_nodups(list, idx) ==
    LET n == SetIter_next(list, idx)
    IN  output_is_ordered_nodups_loop(list, n.iter, n.ret)

SkipAheadIterators ==
    {"SetIter", "MapIter", "KeyIter", "ValueIter", "MapIterMut", "ValueIterMut"}

\* SetIter::new, MapIter::new, ...: index: 0, and iter_mut() at the start.
SkipAhead_new == [n \in SkipAheadIterators |-> 0]

\* The call before this one, for the properties that speak of a repeat.
Previous ==
    IF call.op \in {"next", "next_after", "next_from"}
    THEN [op |-> call.op, t |-> call.t, ret |-> call.ret]
    ELSE [op |-> call.op]

\* The same call made on each of the six iterators; r holds, for each, the
\* iterator after the call and what the call returned.
IterCall(op, t, r) ==
    /\ cursor' = [n \in SkipAheadIterators |-> r[n].iter]
    /\ call' = [op |-> op, t |-> t,
                ret |-> [n \in SkipAheadIterators |-> r[n].ret],
                before |-> cursor, prev |-> Previous]
    /\ UNCHANGED <<slice, vector, setVars, mapVars, mergeVars>>

\* new() of each iterator on the slice.
CallIterNew ==
    /\ cursor' = SkipAhead_new
    /\ call' = [op |-> "iter.new"]
    /\ UNCHANGED <<slice, vector, setVars, mapVars, mergeVars>>

\* next() on each iterator.
CallIterNext ==
    IterCall("next", 0,
        [SetIter |-> SetIter_next(KeysOf(slice), cursor.SetIter),
         MapIter |-> MapIter_next(slice, cursor.MapIter),
         KeyIter |-> KeyIter_next(slice, cursor.KeyIter),
         ValueIter |-> ValueIter_next(slice, cursor.ValueIter),
         MapIterMut |-> MapIterMut_next(slice, cursor.MapIterMut),
         ValueIterMut |-> ValueIterMut_next(slice, cursor.ValueIterMut)])

\* next_after(&t) on each iterator.
CallIterNextAfter(t) ==
    IterCall("next_after", t,
        [SetIter |-> SetIter_next_after(KeysOf(slice), cursor.SetIter, t),
         MapIter |-> MapIter_next_after(slice, cursor.MapIter, t),
         KeyIter |-> KeyIter_next_after(slice, cursor.KeyIter, t),
         ValueIter |-> ValueIter_next_after(slice, cursor.ValueIter, t),
         MapIterMut |-> MapIterMut_next_after(slice, cursor.MapIterMut, t),
         ValueIterMut |->
             ValueIterMut_next_after(slice, cursor.ValueIterMut, t)])

\* next_from(&t) on each iterator.
CallIterNextFrom(t) ==
    IterCall("next_from", t,
        [SetIter |-> SetIter_next_from(KeysOf(slice), cursor.SetIter, t),
         MapIter |-> MapIter_next_from(slice, cursor.MapIter, t),
         KeyIter |-> KeyIter_next_from(slice, cursor.KeyIter, t),
         ValueIter |-> ValueIter_next_from(slice, cursor.ValueIter, t),
         MapIterMut |-> MapIterMut_next_from(slice, cursor.MapIterMut, t),
         ValueIterMut |->
             ValueIterMut_next_from(slice, cursor.ValueIterMut, t)])

\* from(&t) on the SetIter and on the KeyIter, and to_list() of the iterator
\* each returns. from takes self by value: the iterators are gone after the
\* call, and each of the six is made anew on the slice.
CallIterFrom(t) ==
    LET set_iter == SetIter_from(KeysOf(slice), cursor.SetIter, t)
        key_iter == KeyIter_from(slice, cursor.KeyIter, t)
    IN  /\ cursor' = SkipAhead_new
        /\ call' = [op |-> "from", t |-> t,
                    ret |-> [SetIter |-> set_iter, KeyIter |-> key_iter],
                    list |-> [SetIter |->
                                  SetIter_to_list(set_iter.ordered_list,
                                                  set_iter.index, << >>),
                              KeyIter |->
                                  KeyIter_to_list(key_iter.ordered_list,
                                                  key_iter.index, << >>)],
                    before |-> cursor]
        /\ UNCHANGED <<slice, vector, setVars, mapVars, mergeVars>>

\* A failed assertion has ended the program.
Panicked == call.op = "from" /\ call.panicked

\* other.insert(item), on the set the collected one is compared with.
CallOtherInsert(item) ==
    /\ ~Panicked
    /\ CallOrderedSetInsert(item)

\* OrderedSet::from(vector)
CallFrom ==
    /\ ~Panicked
    /\ kind = "OrderedSet"
    /\ LET r == OrderedSet_from(vector)
       IN  call' = [op |-> "from", ret |-> r.ret, panicked |-> r.panicked]
    /\ UNCHANGED <<setVars, mapVars, mergeVars, iterVars>>

\* let set: OrderedSet<T> = vector.into_iter().collect(); set == other
CallFromIter ==
    /\ ~Panicked
    /\ kind = "OrderedSet"
    /\ LET set == OrderedSet_from_iter(vector, << >>)
       IN  call' = [op |-> "from_iter", ret |-> set,
                    eq |-> OrderedSet_eq(set, ordered_list)]
    /\ UNCHANGED <<setVars, mapVars, mergeVars, iterVars>>

\* output_is_ordered_nodups(&mut SetIter::new(&vector))
CallOutputIsOrderedNodups ==
    /\ ~Panicked
    /\ LET r == output_is_ordered_nodups(vector, 0)
       IN  call' = [op |-> "output_is_ordered_nodups", ret |-> r.ret,
                    iter |-> r.iter]
    /\ UNCHANGED <<setVars, mapVars, mergeVars, iterVars>>

----------------------------------------------------------------------------
\* OrderedSet::default() / ListSet::default() / OrderedMap::default(), and
\* two empty operands with no iterator over them.
Init ==
    /\ kind \in {"OrderedSet", "ListSet", "OrderedMap"}
    /\ ordered_list = << >>
    /\ set_hist = [x \in Items |-> "none"]
    /\ keys = << >>
    /\ values = << >>
    /\ entry = None
    /\ map_hist = [k \in Keys |-> Hist("none", 0)]
    /\ lh_list = << >>
    /\ rh_list = << >>
    /\ iter = None
    /\ out = << >>
    /\ slice = << >>
    /\ cursor = SkipAhead_new
    /\ vector = << >>
    /\ call = NoCall

SetNext ==
    \E item \in Items :
        \/ CallOrderedSetInsert(item)
        \/ CallOrderedSetRemove(item)
        \/ CallOrderedSetContains(item)
        \/ CallListSetInsert(item)
        \/ CallListSetRemove(item)
        \/ CallListSetContains(item)

MapNext ==
    \/ \E key \in Keys :
        \/ \E value \in Vals : CallMapInsert(key, value)
        \/ CallMapRemove(key)
        \/ CallMapGet(key)
        \/ CallMapContainsKey(key)
        \/ CallMapEntry(key)
    \/ CallMapClear
    \/ \E default \in Vals :
        \/ CallEntryOrInsert(default)
        \/ CallEntryOrInsertWith(default)
    \/ CallEntryOrDefault

Next == SetNext \/ MapNext

\* A container, OrderedSet, ListSet or OrderedMap, and the calls made on it.
Spec == Init /\ [][Next]_vars

MapInit == Init /\ kind = "OrderedMap"

MapSpecNext ==
    \/ \E key \in Keys :
        \/ \E value \in Vals : CallMapInsert(key, value)
        \/ \E value \in Vals : CallMapGetMut(key, value)
        \/ CallMapRemove(key)
        \/ CallMapGet(key)
        \/ CallMapEntry(key)
    \/ \E modify \in Modifiers : CallEntryAndModify(modify)
    \/ \E default \in Vals :
        \/ CallEntryOrInsert(default)
        \/ CallEntryOrInsertWith(default)
    \/ CallEntryOrDefault

\* An OrderedMap, the calls made on it, the writes through get_mut and the
\* entries modified in place.
MapSpec == MapInit /\ [][MapSpecNext]_vars

MergeInit == Init /\ kind = "ListSet"

MergeNext ==
    \/ \E item \in Items : CallLhInsert(item) \/ CallRhInsert(item)
    \/ \E name \in SetOperations : CallSetOperation(name)
    \/ CallDifferenceNext
    \/ CallSymmetricDifferenceNext
    \/ CallUnionNext
    \/ CallIntersectionNext
    \/ CallOperator("sub", "Difference")
    \/ CallOperator("bitxor", "SymmetricDifference")
    \/ CallOperator("bitor", "Union")
    \/ CallOperator("bitand", "Intersection")
    \/ CallOrderedSetOperator("OrderedSet::sub", "Difference")
    \/ CallOrderedSetOperator("OrderedSet::bitxor", "SymmetricDifference")
    \/ CallOrderedSetOperator("OrderedSet::bitor", "Union")
    \/ CallOrderedSetOperator("OrderedSet::bitand", "Intersection")
    \/ CallToList
    \/ CallIsDisjoint
    \/ CallIsSubset

\* Two ListSets and the set operations on them.
MergeSpec == MergeInit /\ [][MergeNext]_vars

\* The keys a call may name: every key, one below them all and one above.
Targets == 0..(MaxKey + 1)

\* The slices of (key, value) tuples in strictly ascending key order.
OrderedSlices ==
    {s \in UNION {[1..n -> Keys \X Vals] : n \in 0..MaxKey} :
        \A i \in 2..Len(s) : s[i - 1][1] < s[i][1]}

\* A slice in key order, as an OrderedMap holds it, and the six iterators
\* new on it.
IterInit ==
    /\ kind = "OrderedMap"
    /\ ordered_list = << >>
    /\ set_hist = [x \in Items |-> "none"]
    /\ keys = << >>
    /\ values = << >>
    /\ entry = None
    /\ map_hist = [k \in Keys |-> Hist("none", 0)]
    /\ lh_list = << >>
    /\ rh_list = << >>
    /\ iter = None
    /\ out = << >>
    /\ slice \in OrderedSlices
    /\ cursor = SkipAhead_new
    /\ vector = << >>
    /\ call = NoCall

IterNext ==
    \/ CallIterNew
    \/ CallIterNext
    \/ \E t \in Targets :
        \/ CallIterNextAfter(t)
        \/ CallIterNextFrom(t)
        \/ CallIterFrom(t)

\* Six skip-ahead iterators over one slice and the calls made on them.
IterSpec == IterInit /\ [][IterNext]_vars

\* The Vecs of at most MaxLen items, in any order, with or without repeats.
Vecs == UNION {[1..n -> 1..MaxLen] : n \in 0..MaxLen}

VecInit ==
    /\ kind = "OrderedSet"
    /\ ordered_list = << >>
    /\ set_hist = [x \in Items |-> "none"]
    /\ keys = << >>
    /\ values = << >>
    /\ entry = None
    /\ map_hist = [k \in Keys |-> Hist("none", 0)]
    /\ lh_list = << >>
    /\ rh_list = << >>
    /\ iter = None
    /\ out = << >>
    /\ slice = << >>
    /\ cursor = SkipAhead_new
    /\ vector \in Vecs
    /\ call = NoCall

VecNext ==
    \/ \E item \in Items : CallOtherInsert(item)
    \/ CallFrom
    \/ CallFromIter
    \/ CallOutputIsOrderedNodups

\* A Vec in any order, the sets and the iterator made from it, and a set
\* built by insert calls.
VecSpec == VecInit /\ [][VecNext]_vars

----------------------------------------------------------------------------
(* Properties of the set and the map (specification Spec).                 *)

isSet == kind \in {"OrderedSet", "ListSet"}
isMap == kind = "OrderedMap"

Member(s, x) == \E i \in DOMAIN s : s[i] = x

Adjacent(s) == \A i \in 2..Len(s) : s[i - 1] < s[i]

NoDuplicates(s) == \A i, j \in DOMAIN s : i # j => s[i] # s[j]

\* The value stored beside key k in the parallel sequences of m.
Lookup(m, k) == m.values[CHOOSE i \in DOMAIN m.keys : m.keys[i] = k]

\* C1: after every insert and remove on an initially empty OrderedSet or
\* ListSet the stored sequence is strictly ascending (items[i-1] < items[i]
\* for all i > 0), hence duplicate-free, and is_valid() returns true.
C1_SetInvariantPreserved ==
    isSet =>
        /\ Adjacent(ordered_list)
        /\ NoDuplicates(ordered_list)
        /\ kind = "OrderedSet" => OrderedSet_is_valid(ordered_list)
        /\ kind = "ListSet" => ListSet_is_valid(ordered_list)

\* C1 witness: an OrderedSet of three or more items that a remove, after
\* the inserts that built it, has just taken an item out of.
C1_Witness ==
    /\ kind = "OrderedSet"
    /\ call.op = "remove" /\ call.ret
    /\ Len(ordered_list) >= 3

\* C2: after every insert, remove, clear and entry(k).or_insert /
\* or_insert_with / or_default on an initially empty OrderedMap, keys is
\* strictly ascending and len(keys) = len(values): is_valid() returns true.
C2_MapInvariantPreserved ==
    isMap =>
        /\ Adjacent(keys)
        /\ Len(keys) = Len(values)
        /\ OrderedMap_is_valid(theMap)

\* C2 witness: a vacant entry has just been filled by or_insert_with, in
\* front of keys already stored.
C2_Witness ==
    /\ isMap
    /\ call.op = "or_insert_with" /\ call.entry.kind = "Vacant"
    /\ call.entry.index = 0 /\ Len(keys) >= 3

\* What one set insert returns and leaves, against membership before it.
C3_InsertResult ==
    isSet /\ call.op = "insert" =>
        /\ call.ret = ~Member(call.before, call.item)
        /\ Member(call.before, call.item) =>
               ~call.ret /\ ordered_list = call.before
        /\ call.ret =>
               /\ Len(ordered_list) = Len(call.before) + 1
               /\ \A x \in Items :
                      Member(ordered_list, x) <=>
                          (x = call.item \/ Member(call.before, x))
        /\ call.was = "insert" => ~call.ret /\ ordered_list = call.before

\* An insert of the item the previous call inserted with result true.
C3_InsertTwice ==
    (/\ isSet
     /\ call.op = "insert" /\ call.ret
     /\ call'.op = "insert" /\ call'.item = call.item)
        => ~call'.ret /\ ordered_list' = ordered_list

\* C3: a set insert(x) returns true exactly when x was not a member before
\* the call; when x was a member it returns false and leaves the stored
\* sequence as it was; inserting x right after an insert(x) that returned
\* true returns false and changes nothing.
C3_InsertIdempotent == []C3_InsertResult /\ [][C3_InsertTwice]_vars

\* C3 witness: the second of two inserts of the same item, into a set
\* holding other items too, has returned false.
C3_Witness ==
    /\ isSet
    /\ call.op = "insert" /\ ~call.ret /\ call.was = "insert"
    /\ Len(ordered_list) >= 2

\* What one map insert returns and leaves, against the map before it.
C4_InsertResult ==
    isMap /\ call.op = "insert" =>
        /\ ~Member(call.before.keys, call.key) => call.ret = None
        /\ Member(call.before.keys, call.key) =>
               call.ret = Some(Lookup(call.before, call.key))
        /\ OrderedMap_get(theMap, call.key) = Some(call.val)

\* An insert of the key the previous call inserted.
C4_InsertTwice ==
    (/\ isMap
     /\ call.op = "insert"
     /\ call'.op = "insert" /\ call'.key = call.key)
        => /\ call'.ret = Some(call.val)
           /\ OrderedMap_get(Map(keys', values'), call.key) = Some(call'.val)
           /\ call.ret = None =>
                  OrderedMap_len(Map(keys', values')) =
                      OrderedMap_len(call.before) + 1

\* C4: a map insert(k, v) returns None when k is absent and Some(previous
\* value) when k is present; an insert(k, v2) right after insert(k, v1)
\* returns Some(v1), leaves get(k) = Some(v2), and when the first found k
\* absent the length has grown by exactly one over the two calls.
C4_MapInsertReturnsPrevious == []C4_InsertResult /\ [][C4_InsertTwice]_vars

\* C4 witness: a second insert of a key, with another value, has returned
\* the first value.
C4_Witness ==
    /\ isMap
    /\ call.op = "insert" /\ call.was.op = "insert"
    /\ call.ret = Some(call.was.val) /\ call.val # call.was.val
    /\ Len(keys) >= 2

C6_RemoveAbsentIsNoOp ==
    /\ isSet /\ call.op = "remove" /\ ~Member(call.before, call.item) =>
           ~call.ret /\ ordered_list = call.before
    /\ isMap /\ call.op = "remove" /\ ~Member(call.before.keys, call.key) =>
           /\ call.ret = None
           /\ keys = call.before.keys
           /\ values = call.before.values

\* C6 witness: a remove of a key that a map of two or more keys does not hold.
C6_Witness ==
    /\ isMap
    /\ call.op = "remove" /\ ~Member(call.before.keys, call.key)
    /\ Len(call.before.keys) >= 2

----------------------------------------------------------------------------
(* Properties of the set operations (specification MergeSpec).             *)

Elems(s) == {s[i] : i \in DOMAIN s}

RECURSIVE SetToList(_)
\* The ascending sequence of the elements of S.
SetToList(S) ==
    IF S = {}
    THEN << >>
    ELSE LET m == CHOOSE x \in S : \A y \in S : x <= y
         IN  <<m>> \o SetToList(S \ {m})

\* How often x occurs in s.
Count(s, x) == Cardinality({i \in DOMAIN s : s[i] = x})

A == Elems(lh_list)
B == Elems(rh_list)

Iterating(name) == iter # None /\ iter[1].kind = name

\* The iterator has returned None: a complete traversal is in out.
Finished(name) == Iterating(name) /\ call.op = "next" /\ call.ret = None

\* A next() call of the iterator has just returned.
Stepped(name) == Iterating(name) /\ call.op = "next"

\* out holds elements of S only, none twice, and after the traversal all of S.
Yields(name, S) ==
    /\ Iterating(name) =>
           /\ Elems(out) \subseteq S
           /\ NoDuplicates(out)
    /\ Finished(name) => \A x \in S : Count(out, x) = 1

\* C7: Union (and |) yields every element of A or of B exactly once, one in
\* both only once, and nothing else; with one side exhausted it goes on
\* yielding the lookahead of the other.
C7_Union ==
    /\ Yields("Union", A \cup B)
    /\ call.op = "bitor" => call.ret = SetToList(A \cup B)
    /\ Stepped("Union") =>
           LET b == call.before[1]
           IN  /\ b.o_rh_cur_item = None => call.ret = b.o_lh_cur_item
               /\ b.o_lh_cur_item = None => call.ret = b.o_rh_cur_item

\* C7 witness: a finished union of two sets that share an item and each
\* hold one the other lacks, whose last item came from the left side after
\* the right side was exhausted.
C7_Witness ==
    /\ Finished("Union")
    /\ A \cap B # {} /\ A \ B # {} /\ B \ A # {}
    /\ Len(out) >= 3
    /\ out[Len(out)] \in A \ B

\* C8: Intersection (and &) yields exactly the elements in both A and B,
\* each once, and returns None, emitting nothing of the other side, once
\* either side is exhausted.
C8_Intersection ==
    /\ Yields("Intersection", A \cap B)
    /\ call.op = "bitand" => call.ret = SetToList(A \cap B)
    /\ Stepped("Intersection") =>
           LET b == call.before[1]
           IN  (b.o_lh_cur_item = None \/ b.o_rh_cur_item = None) =>
                   call.ret = None /\ iter = call.before

\* C8 witness: a finished intersection that yielded two items and ended on
\* the left side exhausted with the right side still holding an item.
C8_Witness ==
    /\ Finished("Intersection")
    /\ Len(out) >= 2
    /\ iter[1].o_lh_cur_item = None /\ iter[1].o_rh_cur_item # None
    /\ A \ B # {}

\* C9: Difference (and -) yields exactly the elements of A not in B, each
\* once: the remaining left items once the right side is exhausted, and
\* nothing once the left side is exhausted.
C9_Difference ==
    /\ Yields("Difference", A \ B)
    /\ call.op = "sub" => call.ret = SetToList(A \ B)
    /\ Stepped("Difference") =>
           LET b == call.before[1]
           IN  /\ b.o_rh_cur_item = None => call.ret = b.o_lh_cur_item
               /\ b.o_lh_cur_item = None => call.ret = None /\ iter = call.before

\* C9 witness: a finished difference that dropped a shared item and yielded
\* two left items after the right side was exhausted.
C9_Witness ==
    /\ Finished("Difference")
    /\ A \cap B # {}
    /\ Len(out) >= 2
    /\ \A y \in B : y < out[Len(out) - 1]

\* C10: SymmetricDifference (and ^) yields exactly the elements in exactly
\* one of A and B, each once; an item in both is consumed from both sides
\* and not yielded, and the rest of either side is yielded once the other
\* is exhausted.
C10_SymmetricDifference ==
    /\ Yields("SymmetricDifference", (A \ B) \cup (B \ A))
    /\ call.op = "bitxor" => call.ret = SetToList((A \ B) \cup (B \ A))
    /\ Stepped("SymmetricDifference") =>
           LET b == call.before[1]
               n == iter[1]
           IN  /\ b.o_rh_cur_item = None => call.ret = b.o_lh_cur_item
               /\ b.o_lh_cur_item = None => call.ret = b.o_rh_cur_item
               \* every item consumed and not yielded is held by both sides
               /\ \A i \in (b.lh_iter)..(n.lh_iter - 1) :
                      i >= 1 /\ Some(lh_list[i]) # call.ret =>
                          lh_list[i] \in B
               /\ \A i \in (b.rh_iter)..(n.rh_iter - 1) :
                      i >= 1 /\ Some(rh_list[i]) # call.ret =>
                          rh_list[i] \in A
    /\ Finished("SymmetricDifference") =>
           iter[1].lh_iter = Len(lh_list) /\ iter[1].rh_iter = Len(rh_list)

\* C10 witness: a finished symmetric difference of two sets sharing two
\* items, that yielded items of both sides, the last one from the right
\* side after the left side was exhausted.
C10_Witness ==
    /\ Finished("SymmetricDifference")
    /\ Cardinality(A \cap B) >= 2
    /\ Elems(out) \cap A # {}
    /\ Len(out) >= 2 /\ out[Len(out)] \in B

----------------------------------------------------------------------------
(* Properties that relate the set operations to one another (MergeSpec).    *)

Drained == call.op = "to_list"

\* C11: intersection(A, B) and difference(A, B) partition A: every element
\* of A is produced by exactly one of the two iterators, and neither
\* produces an element outside A.
C11_Partition ==
    Drained =>
        /\ \A x \in A : Count(call.ret["Intersection"], x)
                         + Count(call.ret["Difference"], x) = 1
        /\ Elems(call.ret["Intersection"]) \subseteq A
        /\ Elems(call.ret["Difference"]) \subseteq A
        /\ \A y \in B : Count(call.rev["Intersection"], y)
                         + Count(call.rev["Difference"], y) = 1
        /\ Elems(call.rev["Intersection"]) \subseteq B
        /\ Elems(call.rev["Difference"]) \subseteq B

\* C11 witness: both iterators were run over an A that holds an item of B
\* and two items B lacks, and a B that holds an item A lacks.
C11_Witness ==
    /\ Drained
    /\ Len(call.ret["Intersection"]) >= 1
    /\ Len(call.ret["Difference"]) >= 2
    /\ B \ A # {}

\* C12: symmetric_difference(A, B) yields the same set as the union of
\* difference(A, B) and difference(B, A), and difference(A, B),
\* difference(B, A) and intersection(A, B) are pairwise disjoint.
C12_SymmetricDifferenceOfDifferences ==
    Drained =>
        LET AmB == Elems(call.ret["Difference"])
            BmA == Elems(call.rev["Difference"])
            AnB == Elems(call.ret["Intersection"])
        IN  /\ Elems(call.ret["SymmetricDifference"]) = AmB \cup BmA
            /\ Elems(call.rev["SymmetricDifference"]) = AmB \cup BmA
            /\ AmB \cap BmA = {}
            /\ AmB \cap AnB = {}
            /\ BmA \cap AnB = {}

\* C12 witness: the iterators were run over two sets that share an item
\* and each hold an item the other lacks.
C12_Witness ==
    /\ Drained
    /\ call.ret["Difference"] # << >>
    /\ call.rev["Difference"] # << >>
    /\ call.ret["Intersection"] # << >>
    /\ Len(call.ret["SymmetricDifference"]) >= 3

OperatorNames == {"sub", "bitxor", "bitor", "bitand"}

OrderedSetOperatorNames ==
    {"OrderedSet::sub", "OrderedSet::bitxor", "OrderedSet::bitor",
     "OrderedSet::bitand"}

\* C13: the items each of Union, Intersection, Difference and
\* SymmetricDifference yields are strictly ascending with no duplicates, so
\* the container the operators -, |, ^ and & build from them, by to_set
\* (which stores them as yielded) or by collect, satisfies is_valid().
C13_ResultsAreValid ==
    /\ Drained =>
           \A name \in SetOperations :
               /\ Adjacent(call.ret[name]) /\ NoDuplicates(call.ret[name])
               /\ Adjacent(call.rev[name]) /\ NoDuplicates(call.rev[name])
               /\ OrderedSet_is_valid(ToSet_to_set(call.ret[name]))
    /\ \A name \in SetOperations :
           Iterating(name) => Adjacent(out) /\ NoDuplicates(out)
    /\ call.op \in OperatorNames => ListSet_is_valid(call.ret)
    /\ call.op \in OrderedSetOperatorNames => OrderedSet_is_valid(call.ret)

\* C13 witness: an operator of OrderedSet built a set of three or more
\* items out of items of both operands.
C13_Witness ==
    /\ call.op \in OrderedSetOperatorNames
    /\ Len(call.ret) >= 3
    /\ Elems(call.ret) \cap (A \ B) # {}
    /\ Elems(call.ret) \cap (B \ A) # {}

Max(S) == CHOOSE x \in S : \A y \in S : y <= x

Min(S) == CHOOSE x \in S : \A y \in S : x <= y

\* The number of elements of S that are not above every element of T: the
\* items a walk over S ascending passes before it holds one above all of T.
Below(S, T) == Cardinality({x \in S : \E y \in T : x <= y})

\* C14: is_disjoint(A, B) returns true exactly when A and B share no
\* element: false at the first equal pair found, and true as soon as either
\* side is exhausted with no equal pair, an empty A or B included.
C14_IsDisjoint ==
    call.op = "is_disjoint" =>
        /\ call.ret = (A \cap B = {})
        /\ A = {} \/ B = {} => call.ret
        /\ ~call.ret =>
               /\ call.at.o_self_cur_item = Some(Min(A \cap B))
               /\ call.at.o_other_cur_item = Some(Min(A \cap B))
        /\ call.ret =>
               \/ /\ call.at.o_self_cur_item = None
                  /\ call.at.self_iter = Len(lh_list)
                  /\ call.at.other_iter <= Below(B, A) + 1
               \/ /\ call.at.o_other_cur_item = None
                  /\ call.at.other_iter = Len(rh_list)
                  /\ call.at.self_iter <= Below(A, B) + 1

\* C14 witness: is_disjoint returned true on the right side exhausted, with
\* two items of the left side not looked at, and the sets interleave.
C14_Witness ==
    /\ call.op = "is_disjoint" /\ call.ret
    /\ call.at.o_other_cur_item = None
    /\ Len(lh_list) - call.at.self_iter >= 1
    /\ Len(rh_list) >= 1
    /\ \E x \in A : x < Max(B)

\* C15: A.is_subset(B) returns true exactly when every element of A is a
\* member of B: true for A = B and for an empty A, false when A holds an
\* element B lacks or B is exhausted while A has unmatched elements.
C15_IsSubset ==
    call.op = "is_subset" => call.ret = (A \subseteq B)

----------------------------------------------------------------------------
(* Properties of the skip-ahead iterators (specification IterSpec).        *)

ReadOnlyIterators == {"SetIter", "MapIter", "KeyIter", "ValueIter"}

IterOps == {"next", "next_after", "next_from"}

\* What iterator n yields for the tuple pair of the slice.
Element(n, pair) ==
    CASE n \in {"SetIter", "KeyIter"} -> pair[1]
      [] n \in {"MapIter", "MapIterMut"} -> pair
      [] n \in {"ValueIter", "ValueIterMut"} -> pair[2]

\* The position (from 1) of the first tuple after the first i whose key is
\* above t, as a scan of the remainder finds it; 0 when there is none.
FirstAfter(i, t) ==
    LET S == {j \in (i + 1)..Len(slice) : slice[j][1] > t}
    IN  IF S = {} THEN 0 ELSE Min(S)

\* The same for a key that is t or above.
FirstFrom(i, t) ==
    LET S == {j \in (i + 1)..Len(slice) : slice[j][1] >= t}
    IN  IF S = {} THEN 0 ELSE Min(S)

\* The last call on iterator n returned the tuple at position j and left
\* the cursor just past it, or returned None when j is 0.
Returned(n, j) ==
    IF j = 0
    THEN call.ret[n] = None /\ cursor[n] >= call.before[n]
    ELSE /\ call.ret[n] = Some(Element(n, slice[j]))
         /\ cursor[n] = j
         /\ j > call.before[n]

\* No call moves the cursor back, and what a call returns is the tuple
\* just before the cursor it leaves, past every tuple passed before.
NeverYieldedTwice(n) ==
    call.op \in IterOps =>
        /\ cursor[n] >= call.before[n]
        /\ call.ret[n] # None =>
               /\ cursor[n] > call.before[n]
               /\ call.ret[n] = Some(Element(n, slice[cursor[n]]))

\* C16: next_after(t) on SetIter, KeyIter, MapIter and ValueIter, at any
\* cursor position that earlier next, next_after and next_from calls
\* reached, returns the first element not yet passed whose key is above t
\* (None if there is none) and leaves the cursor just past it; it never
\* returns an element already yielded.
C16_NextAfter ==
    \A n \in ReadOnlyIterators :
        /\ NeverYieldedTwice(n)
        /\ call.op = "next_after" =>
               Returned(n, FirstAfter(call.before[n], call.t))

\* C16 witness: after a next or next_from had yielded an element, a
\* next_after named a key below that element and returned the one after it.
C16_Witness ==
    /\ call.op = "next_after"
    /\ call.prev.op \in {"next", "next_from"}
    /\ call.before["SetIter"] >= 1
    /\ call.t < slice[call.before["SetIter"]][1]
    /\ call.ret["SetIter"] # None
    /\ call.ret["MapIter"] # None

\* C17: next_from(t) on the same four iterators returns the first element
\* not yet passed whose key is t or above (None if there is none) and
\* leaves the cursor just past it; a next_from(t) repeated after t itself
\* was returned yields the element that follows t, or None.
C17_NextFrom ==
    \A n \in ReadOnlyIterators :
        call.op = "next_from" =>
            /\ Returned(n, FirstFrom(call.before[n], call.t))
            /\ ( /\ call.prev.op = "next_from"
                 /\ call.prev.t = call.t
                 /\ call.prev.ret["KeyIter"] = Some(call.t) ) =>
                   call.ret[n] =
                       IF call.before[n] < Len(slice)
                       THEN Some(Element(n, slice[call.before[n] + 1]))
                       ELSE None

\* C17 witness: next_from(t) returned t, and the same call made again
\* returned the element after t.
C17_Witness ==
    /\ call.op = "next_from"
    /\ call.prev.op = "next_from"
    /\ call.prev.t = call.t
    /\ call.prev.ret["KeyIter"] = Some(call.t)
    /\ call.ret["KeyIter"] # None
    /\ call.ret["ValueIter"] # None

\* C18: over the same list and the same calls, ValueIterMut and MapIterMut,
\* which scan forward one tuple at a time, yield at every call the element
\* at the position ValueIter and MapIter, which search, yield, and return
\* None on the same calls.
C18_MutableAgree ==
    call.op \in IterOps =>
        /\ call.ret["ValueIterMut"] = call.ret["ValueIter"]
        /\ call.ret["MapIterMut"] = call.ret["MapIter"]
        /\ call.ret["ValueIter"] # None =>
               cursor["ValueIterMut"] = cursor["ValueIter"]
        /\ call.ret["MapIter"] # None =>
               cursor["MapIterMut"] = cursor["MapIter"]

\* C18 witness: after an earlier call had yielded an element, a next_after
\* on the mutable iterators passed over a tuple and yielded the one after.
C18_Witness ==
    /\ call.op = "next_after"
    /\ call.before["ValueIterMut"] >= 1
    /\ cursor["ValueIterMut"] >= call.before["ValueIterMut"] + 2
    /\ call.ret["ValueIterMut"] # None
    /\ call.ret["MapIterMut"] # None

----------------------------------------------------------------------------
(* Properties of the entry API (specification Spec).                       *)

\* The last call consumed the entry of the map by op.
EntryCall(op) ==
    /\ isMap
    /\ call.op = op

\* C19: entry(k).or_insert(d) on an Occupied entry leaves the value and the
\* length as they were and returns the existing value; on a Vacant entry it
\* inserts (k, d) at the recorded index of both keys and values, the length
\* grows by one and d is returned. On an empty map the first or_insert
\* gives its value and length 1, and a following or_insert of the same key
\* leaves that value and length 1.
C19_OrInsert ==
    EntryCall("or_insert") =>
        LET e == call.entry
            b == call.before
        IN  /\ e.kind = "Occupied" <=> Member(b.keys, e.key)
            /\ e.kind = "Occupied" =>
                   /\ theMap = b
                   /\ b.keys[call.ret.index + 1] = e.key
                   /\ Deref(theMap, call.ret) = Lookup(b, e.key)
            /\ e.kind = "Vacant" =>
                   /\ Len(keys) = Len(b.keys) + 1
                   /\ Len(values) = Len(b.values) + 1
                   /\ keys[e.index + 1] = e.key
                   /\ values[e.index + 1] = call.val
                   /\ \A i \in 1..e.index :
                          keys[i] = b.keys[i] /\ values[i] = b.values[i]
                   /\ \A i \in (e.index + 1)..Len(b.keys) :
                          keys[i + 1] = b.keys[i] /\ values[i + 1] = b.values[i]
                   /\ call.ret.index = e.index
                   /\ Deref(theMap, call.ret) = call.val
            /\ b.keys = << >> =>
                   keys = <<e.key>> /\ values = <<call.val>>
            /\ call.was.op = "insert" =>
                   /\ OrderedMap_get(theMap, e.key) = Some(call.was.val)
                   /\ OrderedMap_len(theMap) = OrderedMap_len(b)

\* C19 witness: the map holds one key, put there with one value, and an
\* or_insert of that key with another value has just returned.
C19_Witness ==
    /\ EntryCall("or_insert")
    /\ call.entry.kind = "Occupied"
    /\ call.before.keys = <<call.key>>
    /\ call.was.op = "insert"
    /\ call.was.val # call.val

\* C20: entry(k).or_insert_with(thunk) evaluates the thunk exactly once,
\* storing what it returns, when k is absent, and never when k is present:
\* then the existing value is returned and the map is unchanged.
C20_OrInsertWith ==
    EntryCall("or_insert_with") =>
        LET e == call.entry
            b == call.before
        IN  /\ ~Member(b.keys, e.key) =>
                   /\ call.evals = 1
                   /\ OrderedMap_get(theMap, e.key) = Some(call.val)
                   /\ Deref(theMap, call.ret) = call.val
                   /\ OrderedMap_len(theMap) = OrderedMap_len(b) + 1
            /\ Member(b.keys, e.key) =>
                   /\ call.evals = 0
                   /\ theMap = b
                   /\ Deref(theMap, call.ret) = Lookup(b, e.key)

\* C20 witness: or_insert_with has just returned on a key the map held
\* with a value other than the one its thunk would return.
C20_Witness ==
    /\ EntryCall("or_insert_with")
    /\ call.entry.kind = "Occupied"
    /\ call.evals = 0
    /\ Len(keys) >= 2
    /\ Lookup(theMap, call.key) # call.val

\* C21: entry(k).and_modify(f) applies f exactly once, in place, to the
\* value stored under k when k is present, and does nothing (f not called,
\* map unchanged) when k is absent; the entry returned has the same kind, so
\* and_modify(|v| v + 1).or_insert(d) stores d when k was absent and stores
\* old + 1, ignoring d, when k was present.
C21_AndModify ==
    /\ EntryCall("and_modify") =>
           LET e == call.entry
               b == call.before
           IN  /\ entry = Some(e)
               /\ e.kind = "Occupied" <=> Member(b.keys, e.key)
               /\ Member(b.keys, e.key) =>
                      /\ call.evals = 1
                      /\ keys = b.keys
                      /\ Len(values) = Len(b.values)
                      /\ \A i \in DOMAIN b.keys :
                             values[i] = IF b.keys[i] = e.key
                                         THEN Apply(call.modify, b.values[i])
                                         ELSE b.values[i]
               /\ ~Member(b.keys, e.key) =>
                      call.evals = 0 /\ theMap = b
    /\ EntryCall("or_insert") /\ call.prev.op = "and_modify" =>
           LET p == call.prev
           IN  /\ ~Member(p.before.keys, call.key) =>
                      OrderedMap_get(theMap, call.key) = Some(call.val)
               /\ Member(p.before.keys, call.key) =>
                      OrderedMap_get(theMap, call.key) =
                          Some(Apply(p.modify, Lookup(p.before, call.key)))

\* C21 witness: and_modify(|v| v + 1).or_insert(d) has returned on a key
\* the map held, among other keys, with a value whose successor is not d.
C21_Witness ==
    /\ EntryCall("or_insert")
    /\ call.prev.op = "and_modify"
    /\ call.prev.evals = 1
    /\ Len(keys) >= 2
    /\ OrderedMap_get(theMap, call.key) # Some(call.val)

\* C25: OrderedMap::insert(k, v) on a key already present changes only
\* values[index of k]: the keys (the stored key with them), the length and
\* the value of every other key are as they were.
C25_InsertFrame ==
    isMap /\ call.op = "insert" /\ Member(call.before.keys, call.key) =>
        /\ keys = call.before.keys
        /\ Len(values) = Len(call.before.values)
        /\ \A i \in DOMAIN keys :
               values[i] = IF keys[i] = call.key
                           THEN call.val
                           ELSE call.before.values[i]

\* C25 witness: an insert has replaced the value of the first of three
\* keys by another value.
C25_Witness ==
    /\ isMap /\ call.op = "insert"
    /\ Len(call.before.keys) >= 3
    /\ call.before.keys[1] = call.key
    /\ call.before.values[1] # call.val
    /\ call.before.values[3] # call.val

\* The abstract map: for each key the value most recently stored under it,
\* None when it was never stored or removed since.
Abstract(k) ==
    IF map_hist[k].op = "insert" THEN Some(map_hist[k].val) ELSE None

KeyedOps ==
    {"insert", "remove", "get", "get_mut", "contains_key", "entry",
     "and_modify", "or_insert", "or_insert_with", "or_default"}

\* C30: OrderedMap refines a finite function from keys to values: after any
\* insert, remove, write through get_mut and entry(k).and_modify /
\* or_insert* calls, the pairs (keys[i], values[i]) are exactly the
\* abstract map, get(k) returns the value most recently stored for k, and a
\* call on one key never changes the value of another key.
C30_Refinement ==
    isMap =>
        /\ Len(keys) = Len(values)
        /\ \A i \in DOMAIN keys : Abstract(keys[i]) = Some(values[i])
        /\ \A k \in Keys : Abstract(k) # None => Count(keys, k) = 1
        /\ \A k \in Keys : OrderedMap_get(theMap, k) = Abstract(k)
        /\ call.op = "get" => call.ret = Abstract(call.key)
        /\ call.op \in KeyedOps =>
               \A k \in Keys \ {call.key} :
                   OrderedMap_get(theMap, k) = OrderedMap_get(call.before, k)

\* C30 witness: after a write through get_mut and an and_modify, an
\* or_insert has put a new key in front of two keys whose values differ.
C30_Witness ==
    /\ EntryCall("or_insert")
    /\ call.prev.op = "and_modify"
    /\ call.entry.kind = "Vacant" /\ call.entry.index = 0
    /\ Len(keys) = 3
    /\ values[2] # values[3]
    /\ values[1] # values[3]

\* ----------------------------------------------------------------------
\* The smallest index of seq whose element satisfies P, or the length.
SmallestIndex(seq, P(_)) ==
    IF \E i \in 0..(Len(seq) - 1) : P(seq[i + 1])
    THEN CHOOSE i \in 0..(Len(seq) - 1) :
            /\ P(seq[i + 1])
            /\ \A j \in 0..(i - 1) : ~P(seq[j + 1])
    ELSE Len(seq)

\* C22: for every ascending sequence and every target t, after_index is the
\* smallest index whose element is > t, or the length when there is none;
\* from_index is the smallest index whose element is >= t, or the length;
\* and after_index - from_index is 1 when t is in the sequence, 0 when not.
\* The sequence is the part of the slice a next_after or next_from call
\* searched, and t the target it was given.
C22_Indexes ==
    call.op \in {"next_after", "next_from"} =>
        LET seq == SliceFrom(KeysOf(slice), call.before.SetIter)
            t == call.t
            Above(x) == x > t
            NotBelow(x) == x >= t
        IN  /\ after_index(seq, t) = SmallestIndex(seq, Above)
            /\ from_index(seq, t) = SmallestIndex(seq, NotBelow)
            /\ after_index(seq, t) - from_index(seq, t) =
                   IF \E i \in 1..Len(seq) : seq[i] = t THEN 1 ELSE 0

\* C22 witness: next_after(&t) searched a whole slice of three keys for its
\* middle key and returned the last.
C22_Witness ==
    /\ Len(slice) = 3
    /\ call.op = "next_after"
    /\ call.before.SetIter = 0
    /\ call.t = slice[2][1]
    /\ call.ret.SetIter = Some(slice[3][1])

\* ----------------------------------------------------------------------
\* The keys at index i and beyond that are t or above.
NotYetYieldedFrom(i, t) ==
    SelectSeq(SliceFrom(KeysOf(slice), i), LAMBDA x : x >= t)

\* C29: from(&t) on a SetIter or a KeyIter at any cursor position returns
\* an iterator that yields exactly the elements not yet yielded whose key
\* is >= t, in ascending order; on a fresh iterator its first element is
\* the first element >= t, whether or not t is present.
C29_ScopedFrom ==
    call.op = "from" =>
        \A n \in {"SetIter", "KeyIter"} :
            /\ call.list[n] = NotYetYieldedFrom(call.before[n], call.t)
            /\ call.before[n] = 0 =>
                   IF FirstFrom(0, call.t) # 0
                   THEN /\ call.list[n] # << >>
                        /\ call.list[n][1] = slice[FirstFrom(0, call.t)][1]
                   ELSE call.list[n] = << >>

----------------------------------------------------------------------------
(* The lookahead buffers of the merge iterators (MergeSpec).                 *)

\* The position in its list of the first item a side has not yet removed
\* from its lookahead buffer: the buffered item itself when there is one.
Held(pos, o_cur_item) == IF o_cur_item = None THEN pos + 1 ELSE pos

\* The values the last next() removed from the left and the right buffer.
LhRemoved ==
    LET b == call.before[1]
        n == iter[1]
    IN  {lh_list[i] : i \in Held(b.lh_iter, b.o_lh_cur_item)
                              ..(Held(n.lh_iter, n.o_lh_cur_item) - 1)}

RhRemoved ==
    LET b == call.before[1]
        n == iter[1]
    IN  {rh_list[i] : i \in Held(b.rh_iter, b.o_rh_cur_item)
                              ..(Held(n.rh_iter, n.o_rh_cur_item) - 1)}

\* The values each buffer held at some time during the last next().
LhBuffered ==
    {lh_list[i] : i \in Held(call.before[1].lh_iter,
                             call.before[1].o_lh_cur_item)..iter[1].lh_iter}

RhBuffered ==
    {rh_list[i] : i \in Held(call.before[1].rh_iter,
                             call.before[1].o_rh_cur_item)..iter[1].rh_iter}

\* Each buffered item is the item its underlying iterator yielded last, all
\* items before it having left the buffer, and an empty buffer means the
\* underlying iterator is exhausted.
LookaheadIsNext ==
    iter # None =>
        LET it == iter[1]
        IN  /\ it.o_lh_cur_item # None =>
                   /\ it.lh_iter \in 1..Len(lh_list)
                   /\ it.o_lh_cur_item = Some(lh_list[it.lh_iter])
            /\ it.o_lh_cur_item = None => it.lh_iter = Len(lh_list)
            /\ it.o_rh_cur_item # None =>
                   /\ it.rh_iter \in 1..Len(rh_list)
                   /\ it.o_rh_cur_item = Some(rh_list[it.rh_iter])
            /\ it.o_rh_cur_item = None => it.rh_iter = Len(rh_list)

\* A next() call of one of the four merge iterators has just returned.
MergeStepped == iter # None /\ call.op = "next"

\* C27, as claimed: each buffered lookahead is the next value of its
\* underlying iterator, and every value a next() of a Union, Intersection,
\* Difference or SymmetricDifference removes from a lookahead buffer is
\* emitted by that call or equal to a lookahead of the other side.
C27_RemovedIsEmittedOrDuplicate ==
    /\ LookaheadIsNext
    /\ MergeStepped =>
           /\ \A x \in LhRemoved : Some(x) = call.ret \/ x \in RhBuffered
           /\ \A y \in RhRemoved : Some(y) = call.ret \/ y \in LhBuffered

\* The elements the iterator named is to yield.
ResultSet(name) ==
    CASE name = "Union" -> A \cup B
      [] name = "Intersection" -> A \cap B
      [] name = "Difference" -> A \ B
      [] name = "SymmetricDifference" -> (A \ B) \cup (B \ A)

\* C27, amended: each buffered lookahead is the next value of its underlying
\* iterator; a value a next() removes from a lookahead buffer is emitted by
\* that call whenever it belongs to the result of the operation; and a
\* removed value that is not emitted is equal to a lookahead of the other
\* side or, for either side of an Intersection and the right side of a
\* Difference, is a value the other side does not hold.
C27_LookaheadInvariant ==
    /\ LookaheadIsNext
    /\ MergeStepped =>
           LET name == iter[1].kind
           IN  /\ \A x \in LhRemoved \cup RhRemoved :
                      x \in ResultSet(name) => Some(x) = call.ret
               /\ \A x \in LhRemoved :
                      \/ Some(x) = call.ret
                      \/ x \in RhBuffered
                      \/ name = "Intersection" /\ x \notin B
               /\ \A y \in RhRemoved :
                      \/ Some(y) = call.ret
                      \/ y \in LhBuffered
                      \/ name \in {"Intersection", "Difference"} /\ y \notin A

\* C27 witness: one next() of a Difference removed a right value the left
\* side lacks and a value both sides hold, and emitted a left value, with
\* both buffers still full afterwards.
C27_Witness ==
    /\ Stepped("Difference")
    /\ call.ret # None
    /\ RhRemoved \ A # {}
    /\ RhRemoved \cap LhRemoved # {}
    /\ iter[1].o_lh_cur_item # None
    /\ iter[1].o_rh_cur_item # None

----------------------------------------------------------------------------
(* The work of a traversal (MergeSpec).                                      *)

\* |left| + |right|
Work == Len(lh_list) + Len(rh_list)

\* C28: every merge iterator makes one linear pass: each comparison inside
\* next() consumes the lookahead of at least one side and neither side is
\* read again, so that over a traversal the comparisons and the advances of
\* the underlying iterators number at most |left| + |right| each; and
\* is_disjoint and is_subset return after at most |left| + |right| passes
\* of their loop.
C28_LinearPass ==
    /\ iter # None =>
           /\ iter[1].comparisons <= Work
           /\ iter[1].advances <= Work
           /\ iter[1].lh_iter + iter[1].rh_iter <= Work
    /\ MergeStepped =>
           LET b == call.before[1]
               n == iter[1]
           IN  /\ n.comparisons - b.comparisons
                      <= Cardinality(LhRemoved) + Cardinality(RhRemoved)
               /\ n.advances - b.advances
                      = Cardinality(LhRemoved) + Cardinality(RhRemoved)
               /\ n.lh_iter >= b.lh_iter
               /\ n.rh_iter >= b.rh_iter
               /\ call.ret = None => n.comparisons <= Work /\ n.advances <= Work
    /\ call.op \in {"is_disjoint", "is_subset"} => call.at.iterations <= Work

\* C28 witness: a complete traversal of a symmetric difference that made
\* three or more comparisons, one of them of equal items, and advanced past
\* every item of both sides.
C28_Witness ==
    /\ Finished("SymmetricDifference")
    /\ iter[1].comparisons >= 3
    /\ iter[1].advances = Work
    /\ iter[1].advances > iter[1].comparisons
    /\ A \cap B # {}

----------------------------------------------------------------------------
(* Sets and iterators made from a Vec in any order (VecSpec).               *)

\* Some item of the Vec is not above the item before it.
HasBadPair == \E i \in 2..Len(vector) : vector[i - 1] >= vector[i]

\* The items a set built by insert calls holds, as the history tells them.
Inserted == {x \in Items : set_hist[x] = "insert"}

\* C23: OrderedSet::from(Vec) returns a set holding exactly the given
\* vector when the vector is strictly ascending, and fails its assertion,
\* returning no set, for every vector with an adjacent pair
\* v[i-1] >= v[i]: the constructor never produces an invalid OrderedSet.
C23_FromVec ==
    call.op = "from" =>
        /\ ~HasBadPair =>
               /\ ~call.panicked
               /\ call.ret = Some(vector)
               /\ \A i, j \in 1..Len(vector) : i < j => vector[i] < vector[j]
        /\ HasBadPair => call.panicked /\ call.ret = None
        /\ call.ret # None =>
               Adjacent(call.ret[1]) /\ NoDuplicates(call.ret[1])

\* C23 witness: from() panicked on a vector of three items that ascends
\* and then repeats its last item.
C23_Witness ==
    /\ call.op = "from"
    /\ call.panicked
    /\ Len(vector) = 3
    /\ vector[1] < vector[2]
    /\ vector[2] = vector[3]

\* C24: collecting any finite sequence, in any order and with duplicates,
\* by repeated insert yields the strictly ascending sequence of exactly
\* its distinct elements; the stored sequence depends only on the set of
\* elements, so sets built from the same elements in different insertion
\* orders compare equal and sets of different membership compare unequal.
C24_Collect ==
    /\ ordered_list = SetToList(Inserted)
    /\ call.op = "from_iter" =>
           /\ call.ret = SetToList(Elems(vector))
           /\ Adjacent(call.ret) /\ NoDuplicates(call.ret)
           /\ call.eq <=> Elems(vector) = Inserted

\* C24 witness: a vector of three items that descends and holds one item
\* twice was collected, and the set compared equal to one built by insert.
C24_Witness ==
    /\ call.op = "from_iter"
    /\ call.eq
    /\ Len(vector) = 3
    /\ vector[1] > vector[2]
    /\ Len(call.ret) = 2

\* C26: output_is_ordered_nodups returns true exactly when every item the
\* iterator yields is strictly greater than the one before it, as in an
\* empty or a one-item stream, and false for a stream with an adjacent
\* equal or descending pair, wherever in the stream the pair is.
C26_OutputIsOrderedNodups ==
    call.op = "output_is_ordered_nodups" =>
        /\ call.ret <=> \A i \in 2..Len(vector) : vector[i] > vector[i - 1]
        /\ Len(vector) <= 1 => call.ret
        /\ HasBadPair => ~call.ret
        /\ call.ret => call.iter = Len(vector)

\* C26 witness: false was returned for a stream of three items whose only
\* pair out of order is the last, two equal items.
C26_Witness ==
    /\ call.op = "output_is_ordered_nodups"
    /\ ~call.ret
    /\ Len(vector) = 3
    /\ vector[1] < vector[2]
    /\ vector[3] = vector[2]

====
